---- MODULE Spec2Model ----
(***************************************************************************)
(* Resource cache, download pipeline and cache eviction of the vts browser *)
(* (MapImpl::dataTick, loadResource, fetchedFile, dataRenderTick,          *)
(* touchResource, getMapResource, getResourceValidity) together with the   *)
(* metatile part of MapImpl::travDetermineMeta that consumes the resource  *)
(* validity.                                                               *)
(*                                                                         *)
(* Threads: the render thread (getMapResource/touchResource,               *)
(* travDetermineMeta, dataRenderTick, the frame counter), the data thread  *)
(* (dataTick, which blocks on disk and decode work between its writes of   *)
(* the resource state, hence its three steps) and the fetcher's thread     *)
(* (fetchedFile).                                                          *)
(***************************************************************************)
EXTENDS Integers, Sequences, FiniteSets, TLC

(***************************************************************************)
(* Bounds of the model and program constants.                              *)
(***************************************************************************)
\* largest options.maxConcurrentDownloads tried (the default is 10)
MaxDownloadLimit == 2
\* the options.maxResourcesMemory tried (the default is 512 MB)
MemoryLimit == 2
\* largest number of resources that are pending at once
MaxPending == 2
\* largest frame index the model lets the frame counter reach
MaxFrame == 101
\* the same where two eviction candidates are to differ in their access ticks
MaxLateFrame == 201
\* calls of setMapConfigPath in one run
MaxPathChanges == 2
\* opaque tasks that one traversal emits, and the range of their centers
MaxTasks == 3
MaxCoord == 2
\* range of the box corners' coordinates and of the planes' offsets
MaxBox == 1
\* options.maxNodeMetaUpdatesPerTick
MaxMetaUpdatesPerTick == 2
\* largest renderer.tickIndex the model lets the tick counter reach
MaxTick == 6
\* the same for the chain of nodes that reaches below lod 3
MaxChainTick == 72
MaxOffset == 2
\* longest chain of redirect responses the fetcher delivers to one task
MaxRedirects == 7
\* the grace window of the eviction pass: lastAccessTick + 100 < frameIndex
GraceTicks == 100
\* the ticks after which traverseClearing clears a node that nobody visited
ClearAge == 5
\* the lod whose nodes traverseClearing examines in their slot only, and the
\* number of slots
StaggeredLod == 3
SlotPeriod == 64
\* the redirect limit compared with redirectionsCount in fetchedFile
RedirectLimit == 5
\* width of the unsigned memory accumulators of dataRenderTick, scaled: the
\* program's uint32 holds 8 times its default budget, and so does this one
MemBits == 3
\* the size threshold of the negativeSize availability test used here
SizeThreshold == 1

MemModulus == 2 ^ MemBits

(***************************************************************************)
(* Resource names.  A name without "://" is loaded from internal memory;   *)
(* a name that contains ".json" is never looked up in the disk cache.      *)
(***************************************************************************)
UrlNames == {"u://a", "u://b", "u://c.json", "u://f"}
InternalNames == {"mem"}
JsonNames == {"u://c.json"}
Names == UrlNames \cup InternalNames

\* mapConfigPath and resources.authPath once setMapConfigPath has set them
MapConfigName == "u://c.json"
AuthName == "u://f"

\* position of a pointer in the ordered pending set
Rank(n) ==
    CASE n = "mem" -> 0
      [] n = "u://a" -> 1
      [] n = "u://b" -> 2
      [] n = "u://c.json" -> 3
      [] OTHER -> 4

\* r->resource->name.find("://") != npos
IsUrl(n) == n \in UrlNames
\* r->resource->name.find(".json") != npos
IsJson(n) == n \in JsonNames

States ==
    {"initializing", "downloading", "downloaded", "ready",
     "errorDownload", "errorLoad", "finalizing"}

AvailTypes == {"none", "negativeCode", "negativeType", "negativeSize"}
\* availTest->codes, availTest->mime
NegativeCodes == {204, 404}
NegativeMime == "neg"

\* the availability test that the creator of a resource attaches to it
AvailTestOf(n) ==
    CASE n = "u://a" -> "negativeCode"
      [] n = "u://c.json" -> "negativeSize"
      [] OTHER -> "none"

\* memory costs that a successful load leaves in the resource
LoadedRam(n) ==
    CASE n = "u://a" -> MemoryLimit - 1
      [] n = "mem" -> MemoryLimit - 1
      [] n = "u://b" -> MemoryLimit + 1
      [] n = "u://c.json" -> 2
      [] OTHER -> 2
LoadedGpu(n) ==
    CASE n = "u://a" -> 1
      [] OTHER -> 0

\* responses of the fetcher
Codes == {0, 200, 204, 301, 404}
RedirectCodes == {301, 302, 303, 307, 308}
ContentTypes == {"neg", "ok"}
Sizes == 0..(SizeThreshold + 1)
Responses == [code : Codes, contentType : ContentTypes, size : Sizes]

\* the surface stack of the map config: layer -> name of its metatile
Layers == {1, 2}
UrlMeta(i) == IF i = 1 THEN "u://a" ELSE "u://b"

VARIABLES
    options,         \* MapOptions: maxConcurrentDownloads, maxResourcesMemory
    resources,       \* resources.resources: name -> resource (its fields)
    prepareQue,      \* resources.prepareQue
    prepareQueNew,   \* resources.prepareQueNew
    takeItemIndex,   \* resources.takeItemIndex
    downloads,       \* resources.downloads
    invalidUrl,      \* resources.invalidUrl
    invalidUrlNew,   \* resources.invalidUrlNew
    diskCache,       \* the cache files: name -> size of the saved content
    fetching,        \* tasks handed to the fetcher, not yet completed
    frameIndex,      \* statistics.frameIndex
    workerPc,        \* position of the data thread inside dataTick
    workerR,         \* the pointer r that dataTick popped
    workerStale,     \* r points to a resource that has been erased
    travMeta,        \* trav->meta of the traverse node: none or its metaTiles
    alive,           \* FALSE once the process has been terminated
    refused,         \* names that the download gate refused last
    failedNames,     \* names whose download has ended in errorDownload
    evicted,         \* what the latest eviction pass did
    tree,            \* renderer.traverseRoot's nodes, the traverse queue, draws
    camera,          \* CameraImpl: the eye and the draw lists of the frame
    session,         \* mapConfig and auth of MapImpl, and bool initialized
    culling          \* the box and the planes of one call of aabbTest

vars ==
    <<options, resources, prepareQue, prepareQueNew, takeItemIndex, downloads,
      invalidUrl, invalidUrlNew, diskCache, fetching, frameIndex, workerPc,
      workerR, workerStale, travMeta, alive, refused, failedNames,
      evicted, tree, camera, session, culling>>

\* the state of the traversal, of the camera and of the map's prerequisites
frontEnd == <<tree, camera, session, culling>>

NoName == "none"
NoMeta == [resolved |-> FALSE, metaTiles |-> {}, childs |-> <<>>]
NoEvict == [ran |-> FALSE, over |-> FALSE, cands |-> {}, marked |-> {},
            erased |-> {}, spared |-> {}, memLeft |-> 0, frame |-> 0,
            rescued |-> {}]

\* std::make_shared<T>(name), with the availability test its creator attaches
NewResource(avail) ==
    [state |-> "initializing", lastAccessTick |-> 0, ramMemoryCost |-> 0,
     gpuMemoryCost |-> 0, redirectionsCount |-> 0, code |-> 0,
     availTest |-> avail, contentData |-> 0]

Exists(n) == n \in DOMAIN resources

\* it.second.use_count(): the cache map, the traverse node's metaTiles, and
\* the members mapConfig and resources.auth of MapImpl
UseCount(n) ==
    1 + Cardinality({i \in Layers : travMeta.resolved /\ i \in travMeta.metaTiles
                                     /\ UrlMeta(i) = n})
      + (IF session.mapConfig /\ n = MapConfigName THEN 1 ELSE 0)
      + (IF session.auth /\ n = AuthName THEN 1 ELSE 0)

(***************************************************************************)
(* Render thread: getMapResource, touchResource, getResourceValidity.      *)
(***************************************************************************)
TouchedStateKeeps(s) == s

\* the state that touchResource leaves
TouchedState(s) == IF s = "finalizing" THEN "initializing" ELSE s

TouchEnqueuesAlways(s) == TRUE

\* the cases of touchResource's switch that insert into prepareQueNew
TouchEnqueues(s) == s \in {"finalizing", "initializing", "downloaded"}

\* MapImpl::touchResource on the resource map res
TouchResource(res, n) ==
    [res EXCEPT ![n].lastAccessTick = frameIndex,
                ![n].state = TouchedState(res[n].state)]

\* what touchResource(n) adds to prepareQueNew
TouchQueue(res, n) == IF TouchEnqueues(res[n].state) THEN {n} ELSE {}

\* getMapResource: find or create
FindOrCreate(res, n, avail) ==
    IF n \in DOMAIN res THEN res ELSE res @@ (n :> NewResource(avail))

\* MapImpl::getResourceValidity
GetResourceValidity(res, n) ==
    IF n \notin DOMAIN res THEN "Invalid"
    ELSE CASE res[n].state \in {"errorDownload", "errorLoad"} -> "Invalid"
           [] res[n].state = "ready" -> "Valid"
           [] OTHER -> "Indeterminate"

\* getMapResource<T>(name, map): create the resource if absent and touch it
GetMapResource(n, avail) ==
    /\ alive
    /\ LET created == FindOrCreate(resources, n, avail)
       IN  /\ resources' = TouchResource(created, n)
           /\ prepareQueNew' = prepareQueNew \cup TouchQueue(created, n)
    /\ UNCHANGED <<options, prepareQue, takeItemIndex, downloads, invalidUrl,
                   invalidUrlNew, diskCache, fetching, frameIndex, workerPc,
                   workerR, workerStale, travMeta, alive, refused, failedNames,
                   evicted,
                   frontEnd>>

\* the frame counter of the render tick advances over n frames in which the
\* traversal touches nothing
FrameSteps == {GraceTicks, GraceTicks + 1}
RenderTicks(n) ==
    /\ alive
    /\ frameIndex + n <= MaxFrame
    /\ frameIndex' = frameIndex + n
    /\ UNCHANGED <<options, resources, prepareQue, prepareQueNew, takeItemIndex,
                   downloads, invalidUrl, invalidUrlNew, diskCache, fetching,
                   workerPc, workerR, workerStale, travMeta, alive, refused,
                   failedNames, evicted,
                   frontEnd>>

\* the frame counter where it may run over two grace windows
LateRenderTicks(n) ==
    /\ alive
    /\ frameIndex + n <= MaxLateFrame
    /\ frameIndex' = frameIndex + n
    /\ UNCHANGED <<options, resources, prepareQue, prepareQueNew, takeItemIndex,
                   downloads, invalidUrl, invalidUrlNew, diskCache, fetching,
                   workerPc, workerR, workerStale, travMeta, alive, refused,
                   failedNames, evicted,
                   frontEnd>>

(***************************************************************************)
(* MapImpl::travDetermineMeta: the metatiles of the node, one per layer.   *)
(***************************************************************************)
RECURSIVE TouchAll(_, _)
\* getMetaTile for every name of ns: the resource map afterwards
TouchAll(res, ns) ==
    IF ns = {} THEN res
    ELSE LET n == CHOOSE m \in ns : TRUE
         IN  TouchAll(TouchResource(FindOrCreate(res, n, AvailTestOf(n)), n),
                      ns \ {n})

MetaNames == {UrlMeta(i) : i \in Layers}

\* the layers whose metatile is kept in metaTiles[i]
ValidLayers(res) ==
    {i \in Layers : GetResourceValidity(res, UrlMeta(i)) = "Valid"}

UndeterminedNever(validity) == FALSE

\* case Validity::Indeterminate: determined = false
Undetermined(validity) == validity = "Indeterminate"

\* bool determined after the loop over the layers
MetaDetermined(res) ==
    \A i \in Layers : ~Undetermined(GetResourceValidity(res, UrlMeta(i)))

\* the quadrants of a tile, and n.childFlags() of the tile's metanode in the
\* metatile of layer i
Quadrants == 0..3
ChildFlagsOf(i) == IF i = 1 THEN {0, 1} ELSE {1, 3}

ChildsAvailableInFirst(layers, q) ==
    layers # {} /\ q \in ChildFlagsOf(CHOOSE i \in layers : \A j \in layers : i <= j)

\* childsAvailable[q] after the loop over the kept metatiles
ChildsAvailable(layers, q) == \E i \in layers : q \in ChildFlagsOf(i)

\* trav->childs after "prepare children": one push_back per available
\* quadrant, in the order of the quadrants
PreparedChilds(layers) ==
    SelectSeq(<<0, 1, 2, 3>>, LAMBDA q : ChildsAvailable(layers, q))

TravDetermineMeta ==
    /\ alive
    /\ ~travMeta.resolved
    /\ LET created == [n \in DOMAIN resources \cup MetaNames |->
                          IF n \in DOMAIN resources THEN resources[n]
                          ELSE NewResource(AvailTestOf(n))]
           touched == TouchAll(resources, MetaNames)
       IN  /\ resources' = touched
           /\ prepareQueNew' = prepareQueNew \cup
                  UNION {TouchQueue(created, n) : n \in MetaNames}
           /\ IF ~MetaDetermined(touched)
              THEN UNCHANGED <<travMeta, alive>>
              ELSE IF ValidLayers(touched) = {}
                   \* assert(node) fails, or *node dereferences null
                   THEN alive' = FALSE /\ UNCHANGED travMeta
                   ELSE /\ travMeta' =
                            [resolved |-> TRUE,
                             metaTiles |-> ValidLayers(touched),
                             childs |-> PreparedChilds(ValidLayers(touched))]
                        /\ UNCHANGED alive
    /\ UNCHANGED <<options, prepareQue, takeItemIndex, downloads, invalidUrl,
                   invalidUrlNew, diskCache, fetching, frameIndex, workerPc,
                   workerR, workerStale, refused, failedNames, evicted,
                   frontEnd>>

\* MapImpl::traverseClearing: the node drops its meta and the metatiles it holds
TraverseClearing ==
    /\ alive
    /\ travMeta.resolved
    /\ travMeta' = NoMeta
    /\ UNCHANGED <<options, resources, prepareQue, prepareQueNew, takeItemIndex,
                   downloads, invalidUrl, invalidUrlNew, diskCache, fetching,
                   frameIndex, workerPc, workerR, workerStale, alive, refused,
                   failedNames, evicted,
                   frontEnd>>

(***************************************************************************)
(* Data thread: MapImpl::loadResource and MapImpl::dataTick.               *)
(***************************************************************************)
\* the state loadResource leaves: resource->load(this) returns or throws
LoadedState(ok) == IF ok THEN "ready" ELSE "errorLoad"

\* the buffer that is freed only where the load succeeds
ContentAfterLoadKeptOnError(size, ok) == IF ok THEN 0 ELSE size

\* r->contentData.free() behind the try block: the size of the buffer left
ContentAfterLoad(size, ok) == 0

\* MapImpl::loadResource on resource n; ok: the decoder does not throw
LoadResource(res, n, ok) ==
    [res EXCEPT ![n].state = LoadedState(ok),
                ![n].ramMemoryCost = IF ok THEN LoadedRam(n) ELSE @,
                ![n].gpuMemoryCost = IF ok THEN LoadedGpu(n) ELSE @,
                ![n].contentData = ContentAfterLoad(@, ok)]

\* assert(r->contentData.size() > 0) at the entry of loadResource
LoadAssertHolds(res, n) == res[n].contentData > 0

\* the process after the assertion: a build with assertions aborts where
\* it fails, a build without them goes on
AliveAfterAssert(res, n) == IF LoadAssertHolds(res, n) THEN {TRUE} ELSE BOOLEAN

\* r->loadFromInternalMemory(): the buffer of a compiled-in file
LoadFromInternalMemory(res, n) == [res EXCEPT ![n].contentData = 1]

\* r->loadFromCache(map): the buffer read from the cache file
LoadFromCache(res, cache, n) == [res EXCEPT ![n].contentData = cache[n]]

\* resource->saveToCache(map): the cache file holds the content
SaveToCache(cache, n, size) == (n :> size) @@ cache

\* the pending set in the order of its iteration
RankedBelow(q, n) == Cardinality({m \in q : Rank(m) < Rank(n)})

\* *std::next(prepareQue.begin(), takeItemIndex % prepareQue.size())
TakeItem(q, idx) ==
    CHOOSE n \in q : RankedBelow(q, n) = idx % Cardinality(q)

\* takeItemIndex is kept modulo the least common multiple of the sizes that
\* the pending set can have
TakeModulus ==
    CHOOSE m \in 1..60 :
        /\ \A k \in 1..MaxPending : m % k = 0
        /\ \A l \in 1..(m - 1) : \E k \in 1..MaxPending : l % k # 0

\* the invalid url check of dataTick
IsBlacklisted(n) == n \in invalidUrl

\* the gate with its limit off by one
GateOpenOffByOne(d) == d + 1 < options.maxConcurrentDownloads

\* the download gate of dataTick
GateOpen(d) == d < options.maxConcurrentDownloads

SyncInvalidUrlsReplaces(authoritative, staging) == staging

\* sync invalid urls: invalidUrl.insert(invalidUrlNew.begin(), .end())
SyncInvalidUrls(authoritative, staging) == authoritative \cup staging

\* dataTick up to the pop: sync of the invalid urls, one item taken
DataTickTake ==
    /\ alive
    /\ workerPc = "idle"
    /\ invalidUrl' = SyncInvalidUrls(invalidUrl, invalidUrlNew)
    /\ invalidUrlNew' = {}
    /\ IF prepareQue # {}
       THEN LET r == TakeItem(prepareQue, takeItemIndex)
            IN  /\ workerR' = r
                /\ prepareQue' = prepareQue \ {r}
                /\ takeItemIndex' = (takeItemIndex + 1) % TakeModulus
                /\ workerPc' = "check"
                /\ workerStale' = FALSE
       ELSE UNCHANGED <<workerR, prepareQue, takeItemIndex, workerPc,
                        workerStale>>
    /\ UNCHANGED <<options, resources, prepareQueNew, downloads, diskCache, fetching,
                   frameIndex, travMeta, alive, refused, failedNames, evicted,
                   frontEnd>>

\* dataTick from the pop to the write of State::downloading
DataTickCheck ==
    /\ alive
    /\ workerPc = "check"
    /\ IF workerStale
       \* r dangles: the read of r->state is undefined
       THEN /\ alive' \in BOOLEAN
            /\ UNCHANGED <<resources, refused>>
            /\ workerPc' = "idle"
       ELSE LET r == workerR
                s == resources[r].state
            IN  CASE s = "downloaded" ->
                       /\ alive' \in AliveAfterAssert(resources, r)
                       /\ \E ok \in BOOLEAN :
                              resources' = LoadResource(resources, r, ok)
                       /\ workerPc' = "idle"
                       /\ UNCHANGED refused
                  [] s = "initializing" /\ IsBlacklisted(r) ->
                       /\ resources' =
                              [resources EXCEPT ![r].state = "errorLoad"]
                       /\ workerPc' = "idle"
                       /\ refused' = refused \ {r}
                       /\ UNCHANGED alive
                  [] s = "initializing" /\ ~IsBlacklisted(r) ->
                       /\ resources' =
                              [resources EXCEPT ![r].state = "downloading"]
                       /\ workerPc' = "dispatch"
                       /\ UNCHANGED <<refused, alive>>
                  [] OTHER ->
                       /\ workerPc' = "idle"
                       /\ UNCHANGED <<resources, refused, alive>>
    /\ UNCHANGED <<options, prepareQue, prepareQueNew, takeItemIndex, downloads,
                   invalidUrl, invalidUrlNew, diskCache, fetching, frameIndex,
                   workerR, workerStale, travMeta, failedNames, evicted,
                   frontEnd>>

\* availableInCache(name)
AvailableInCache(n) == n \in DOMAIN diskCache

\* dataTick after the write of State::downloading
DataTickDispatch ==
    /\ alive
    /\ workerPc = "dispatch"
    /\ workerPc' = "idle"
    /\ LET r == workerR
       IN  CASE ~IsUrl(r) ->
                  \* loadFromInternalMemory, loadResource
                  LET read == LoadFromInternalMemory(resources, r)
                  IN  /\ alive' \in AliveAfterAssert(read, r)
                      /\ \E ok \in BOOLEAN :
                             resources' = LoadResource(read, r, ok)
                      /\ refused' = refused \ {r}
                      /\ UNCHANGED <<fetching, downloads>>
             [] IsUrl(r) /\ ~IsJson(r) /\ AvailableInCache(r) ->
                  \* loadFromCache, loadResource
                  LET read == LoadFromCache(resources, diskCache, r)
                  IN  /\ alive' \in AliveAfterAssert(read, r)
                      /\ \E ok \in BOOLEAN :
                             resources' = LoadResource(read, r, ok)
                      /\ refused' = refused \ {r}
                      /\ UNCHANGED <<fetching, downloads>>
             [] IsUrl(r) /\ ~(~IsJson(r) /\ AvailableInCache(r))
                  /\ GateOpen(downloads) ->
                  \* fetcher->fetch(r)
                  /\ fetching' = fetching \cup {r}
                  /\ downloads' = downloads + 1
                  /\ refused' = refused \ {r}
                  /\ UNCHANGED <<resources, alive>>
             [] OTHER ->
                  /\ resources' =
                         [resources EXCEPT ![r].state = "initializing"]
                  /\ refused' = refused \cup {r}
                  /\ UNCHANGED <<fetching, downloads, alive>>
    /\ UNCHANGED <<options, prepareQue, prepareQueNew, takeItemIndex, invalidUrl,
                   invalidUrlNew, diskCache, frameIndex, workerR, workerStale,
                   travMeta, failedNames, evicted,
                   frontEnd>>

(***************************************************************************)
(* Fetcher thread: MapImpl::fetchedFile.                                   *)
(***************************************************************************)
IsErrorCodeServerOnly(code) == code >= 500 \/ code = 0

\* handle error codes
IsErrorCode(code) == code >= 400 \/ code = 0

\* case negativeCode of the availability tests
NegativeCodeRejects(code) == code \notin NegativeCodes

\* case negativeType of the availability tests
NegativeTypeRejects(contentType) == NegativeMime = contentType

\* case negativeSize of the availability tests
NegativeSizeRejects(size) == size <= SizeThreshold

\* the switch over availTest->type: does it set errorDownload
AvailRejects(avail, resp) ==
    CASE avail = "negativeCode" -> NegativeCodeRejects(resp.code)
      [] avail = "negativeType" -> NegativeTypeRejects(resp.contentType)
      [] avail = "negativeSize" -> NegativeSizeRejects(resp.size)
      [] OTHER -> FALSE

\* the switch over availTest->type: does it reach the throw of its default
AvailThrows(avail) == avail = "negativeSize"

\* task->redirectionsCount++ > 5, on the value before the increment
RedirectsExhausted(count) == count > RedirectLimit

\* the state after "handle error codes" and after the availability tests
StateAfterTests(avail, resp) ==
    IF IsErrorCode(resp.code) THEN "errorDownload"
    ELSE IF avail # "none" /\ AvailRejects(avail, resp) THEN "errorDownload"
    ELSE "downloading"

\* the availability switch is entered and ends in the throw
FetchThrows(avail, resp) ==
    ~IsErrorCode(resp.code) /\ avail # "none" /\ AvailThrows(avail)

\* the redirection switch is entered with a redirect code
FetchRedirects(avail, resp) ==
    /\ ~FetchThrows(avail, resp)
    /\ StateAfterTests(avail, resp) = "downloading"
    /\ resp.code \in RedirectCodes

\* assert(resource->state == ResourceImpl::State::downloading)
FetchAssertHolds(res, n) == res[n].state = "downloading"

\* the process at a failed assertion: a build with assertions aborts
AbortsAtAssert(holds) == IF holds THEN {FALSE} ELSE BOOLEAN

\* MapImpl::fetchedFile for task n with response resp; caught: the fetcher
\* survives an exception that leaves the callback
FetchedFile(n, resp, caught) ==
    /\ alive
    /\ n \in fetching
    /\ resp.code \in RedirectCodes =>
           resources[n].redirectionsCount < MaxRedirects
    /\ LET avail == resources[n].availTest
           s2 == StateAfterTests(avail, resp)
           count == resources[n].redirectionsCount
       IN  \E aborts \in AbortsAtAssert(FetchAssertHolds(resources, n)) :
           IF aborts
           THEN /\ alive' = FALSE
                /\ fetching' = fetching \ {n}
                /\ UNCHANGED <<resources, failedNames, downloads,
                               invalidUrlNew, diskCache>>
           ELSE IF FetchThrows(avail, resp)
           THEN /\ resources' = [resources EXCEPT ![n].state = s2,
                                                   ![n].code = resp.code,
                                                   ![n].contentData = resp.size]
                /\ fetching' = fetching \ {n}
                /\ alive' = caught
                /\ failedNames' = IF s2 = "errorDownload"
                                  THEN failedNames \cup {n} ELSE failedNames
                /\ UNCHANGED <<downloads, invalidUrlNew, diskCache>>
           ELSE IF FetchRedirects(avail, resp) /\ ~RedirectsExhausted(count)
           THEN /\ resources' =
                       [resources EXCEPT ![n].redirectionsCount = count + 1,
                                         ![n].code = resp.code,
                                         ![n].contentData = resp.size]
                /\ UNCHANGED <<fetching, alive, failedNames, downloads,
                               invalidUrlNew, diskCache>>
           ELSE LET s3 == IF FetchRedirects(avail, resp)
                          THEN "errorDownload" ELSE s2
                    c3 == IF FetchRedirects(avail, resp)
                          THEN count + 1 ELSE count
                IN  /\ downloads' = downloads - 1
                    /\ fetching' = fetching \ {n}
                    /\ UNCHANGED alive
                    /\ IF s3 = "errorDownload"
                       THEN /\ resources' =
                                   [resources EXCEPT
                                       ![n].state = "errorDownload",
                                       ![n].code = resp.code,
                                       ![n].redirectionsCount = c3,
                                       ![n].contentData = 0]
                            /\ invalidUrlNew' = invalidUrlNew \cup {n}
                            /\ failedNames' = failedNames \cup {n}
                            /\ UNCHANGED diskCache
                       ELSE /\ resources' =
                                   [resources EXCEPT
                                       ![n].state = "downloaded",
                                       ![n].code = resp.code,
                                       ![n].redirectionsCount = c3,
                                       ![n].contentData = resp.size]
                            /\ diskCache' =
                                   SaveToCache(diskCache, n, resp.size)
                            /\ UNCHANGED <<invalidUrlNew, failedNames>>
    /\ UNCHANGED <<options, prepareQue, prepareQueNew, takeItemIndex, invalidUrl,
                   frameIndex, workerPc, workerR, workerStale, travMeta,
                   refused, evicted,
                   frontEnd>>

(***************************************************************************)
(* Render thread: MapImpl::dataRenderTick (queue swap, eviction pass).     *)
(***************************************************************************)
\* uint32 arithmetic
Add32(a, b) == (a + b) % MemModulus
Sub32(a, b) == (a - b + MemModulus) % MemModulus

RECURSIVE SumRam(_, _)
\* memRamUse += it.second->ramMemoryCost over the names ns
SumRam(res, ns) ==
    IF ns = {} THEN 0
    ELSE LET n == CHOOSE m \in ns : TRUE
         IN  Add32(res[n].ramMemoryCost, SumRam(res, ns \ {n}))

RECURSIVE SumGpu(_, _)
\* memGpuUse += it.second->gpuMemoryCost over the names ns
SumGpu(res, ns) ==
    IF ns = {} THEN 0
    ELSE LET n == CHOOSE m \in ns : TRUE
         IN  Add32(res[n].gpuMemoryCost, SumGpu(res, ns \ {n}))

MemUseGpuTwice(res) ==
    Add32(SumRam(res, DOMAIN res),
          Add32(SumGpu(res, DOMAIN res), SumGpu(res, DOMAIN res)))

\* uint32 memUse = memRamUse + memGpuUse
MemUse(res) == Add32(SumRam(res, DOMAIN res), SumGpu(res, DOMAIN res))

\* it->gpuMemoryCost + it->ramMemoryCost
Cost(res, n) == Add32(res[n].gpuMemoryCost, res[n].ramMemoryCost)

IsCandidateAnyAge(res, n, uses, frame) ==
    /\ uses = 1
    /\ res[n].state # "downloading"

\* consider long time not used resources only
IsCandidate(res, n, uses, frame) ==
    /\ res[n].lastAccessTick + GraceTicks < frame
    /\ uses = 1
    /\ res[n].state # "downloading"

\* the vector res of dataRenderTick
Candidates(res, frame) ==
    {n \in DOMAIN res : IsCandidate(res, n, UseCount(n), frame)}

SortBeforeNewestFirst(res, a, b) ==
    IF res[a].lastAccessTick = res[b].lastAccessTick
    THEN Cost(res, a) > Cost(res, b)
    ELSE res[a].lastAccessTick > res[b].lastAccessTick

\* the comparator given to std::sort
SortBefore(res, a, b) ==
    IF res[a].lastAccessTick = res[b].lastAccessTick
    THEN Cost(res, a) > Cost(res, b)
    ELSE res[a].lastAccessTick < res[b].lastAccessTick

\* the orders std::sort may leave the candidates in
SortedOrders(res, cands) ==
    {ord \in [1..Cardinality(cands) -> cands] :
        /\ \A i, j \in DOMAIN ord : i # j => ord[i] # ord[j]
        /\ \A i, j \in DOMAIN ord : i < j => ~SortBefore(res, ord[j], ord[i])}

\* if (memUse > options.maxResourcesMemory)
OverBudget(memUse) == memUse > options.maxResourcesMemory

WalkStopsOneEarly(memUse) == memUse <= options.maxResourcesMemory + 1

\* if (memUse <= options.maxResourcesMemory) break
WalkStops(memUse) == memUse <= options.maxResourcesMemory

ErasesOnFirstEncounter(s) == s # "downloading"

\* the loop body's choice: erase on the second encounter
ErasesNow(s) == s = "finalizing"

RECURSIVE EvictWalk(_, _, _, _)
\* for (Resource *it : res): the walk from position i with memUse left;
\* acc collects the names marked and the names erased
EvictWalk(res, ord, i, acc) ==
    IF i > Len(ord) \/ WalkStops(acc.memLeft) THEN acc
    ELSE LET n == ord[i]
             left == Sub32(acc.memLeft, Cost(res, n))
         IN  IF ErasesNow(res[n].state)
             THEN EvictWalk(res, ord, i + 1,
                      [acc EXCEPT !.memLeft = left,
                                  !.erased = @ \cup {n}])
             ELSE EvictWalk(res, ord, i + 1,
                      [acc EXCEPT !.memLeft = left,
                                  !.marked = @ \cup {n}])

\* the result of the eviction pass for one order of the candidates
EvictionPass(res, ord) ==
    IF OverBudget(MemUse(res))
    THEN EvictWalk(res, ord, 1,
             [marked |-> {}, erased |-> {}, memLeft |-> MemUse(res)])
    ELSE [marked |-> {}, erased |-> {}, memLeft |-> MemUse(res)]

\* the resource map after the pass
AfterEviction(res, pass) ==
    [n \in DOMAIN res \ pass.erased |->
        IF n \in pass.marked THEN [res[n] EXCEPT !.state = "finalizing"]
        ELSE res[n]]

DataRenderTick ==
    /\ alive
    /\ prepareQue' = prepareQueNew
    /\ prepareQueNew' = {}
    /\ LET cands == Candidates(resources, frameIndex)
       IN  \E ord \in SortedOrders(resources, cands) :
               LET pass == EvictionPass(resources, ord)
               IN  /\ resources' = AfterEviction(resources, pass)
                   /\ workerStale' =
                          (workerStale \/
                             (workerPc = "check" /\ workerR \in pass.erased))
                   /\ evicted' =
                          [ran |-> TRUE,
                           over |-> OverBudget(MemUse(resources)),
                           cands |-> cands,
                           marked |-> pass.marked,
                           erased |-> pass.erased,
                           spared |-> DOMAIN resources \ cands,
                           memLeft |-> pass.memLeft,
                           frame |-> frameIndex,
                           rescued |->
                               {n \in evicted.marked \cap DOMAIN resources :
                                   /\ resources[n].state # "finalizing"
                                   /\ n \notin pass.erased}]
                   /\ refused' = refused \ pass.erased
    /\ UNCHANGED <<options, takeItemIndex, downloads, invalidUrl,
                   invalidUrlNew, diskCache, fetching, frameIndex, workerPc,
                   workerR, travMeta, alive, failedNames,
                   frontEnd>>

(***************************************************************************)
(* The traverse tree: MapImpl::traverse in hierarchical mode with          *)
(* travDetermineMeta, travDetermineDraws, renderNode and traverseClearing  *)
(* over a root, its two children and one grandchild, with one surface in   *)
(* the surface stack.  Only the root and the first child have geometry.    *)
(***************************************************************************)
TravNodes == {"r", "k1", "k2", "g"}
RootNode == "r"

\* the children that the node's metanode flags as available
ChildrenOf(n) ==
    CASE n = "r" -> {"k1", "k2"}
      [] n = "k1" -> {"g"}
      [] OTHER -> {}

\* n.geometry() of the node's metanode
HasGeometry(n) == n \in {"r", "k1"}

\* surface->urlMeta(roundId(nodeId)): one metatile per lod
MetaTileOf(n) ==
    CASE n = "r" -> "u://m0"
      [] n = "g" -> "u://m2"
      [] OTHER -> "u://m1"

\* surface->urlMesh(nodeId) and surface->urlIntTex(nodeId, 0)
MeshOf(n) == IF n = "r" THEN "u://x0" ELSE "u://x1"
TextureOf(n) == IF n = "r" THEN "u://t0" ELSE "u://t1"

TileNames == {MetaTileOf(n) : n \in TravNodes}
                 \cup {MeshOf(n) : n \in TravNodes}
                 \cup {TextureOf(n) : n \in TravNodes}

\* a TraverseNode as its constructor and as TraverseNode::clear leave it;
\* exists: the node is in its parent's childs (or is the root)
NewNode(exists) ==
    [exists |-> exists, meta |-> FALSE, surface |-> FALSE, renders |-> FALSE,
     visited |-> FALSE, determined |-> FALSE, lastAccessTime |-> 0]

NoTree ==
    [nodes |-> [n \in TravNodes |-> NewNode(FALSE)], queue |-> {},
     phase |-> "none", rendered |-> {}, emitted |-> {}, loadOnly |-> {},
     fallback |-> {}, metaUpdates |-> 0, metaRequests |-> 0, again |-> {},
     tickIndex |-> 0]

\* getMapResource on the pair rq of the resource map and prepareQueNew
GetTouched(rq, n) ==
    LET created == FindOrCreate(rq.res, n, "none")
    IN  [res |-> TouchResource(created, n),
         que |-> rq.que \cup TouchQueue(created, n)]

\* RenderTask::ready() of the node's one task: its mesh and its texture
TaskReady(res, n) ==
    /\ GetResourceValidity(res, MeshOf(n)) = "Valid"
    /\ GetResourceValidity(res, TextureOf(n)) = "Valid"

\* touchDraws(trav->renders)
TouchDraws(ctx, n) ==
    IF ctx.nodes[n].renders
    THEN LET rq == GetTouched(GetTouched([res |-> ctx.res, que |-> ctx.que],
                                         MeshOf(n)), TextureOf(n))
         IN  [ctx EXCEPT !.res = rq.res, !.que = rq.que]
    ELSE ctx

\* if (!trav->meta && !travDetermineMeta(trav)) return; budget: the call is
\* within options.maxNodeMetaUpdatesPerTick
MetaStage(ctx, n, budget) ==
    IF ctx.nodes[n].meta THEN ctx
    ELSE IF ~budget THEN [ctx EXCEPT !.done = TRUE]
    ELSE LET rq == GetTouched([res |-> ctx.res, que |-> ctx.que],
                              MetaTileOf(n))
             validity == GetResourceValidity(rq.res, MetaTileOf(n))
             touched == [ctx EXCEPT !.res = rq.res, !.que = rq.que]
         IN  CASE Undetermined(validity) -> [touched EXCEPT !.done = TRUE]
               \* no metatile is kept: assert(node) fails, *node is null
               [] validity = "Invalid" ->
                      [touched EXCEPT !.done = TRUE, !.crashed = TRUE]
               [] OTHER ->
                      [touched EXCEPT
                          !.nodes = [m \in TravNodes |->
                              IF m = n
                              THEN [@[m] EXCEPT !.meta = TRUE,
                                                !.surface = HasGeometry(n)]
                              ELSE IF m \in ChildrenOf(n)
                              THEN NewNode(TRUE)
                              ELSE @[m]]]

\* if (trav->meta->surface && trav->renders.empty()) travDetermineDraws(trav)
\* budget: the call is within options.maxNodeDrawsUpdatesPerTick
DrawsStage(ctx, n, budget) ==
    IF ctx.done \/ ~ctx.nodes[n].surface \/ ctx.nodes[n].renders \/ ~budget
    THEN ctx
    ELSE LET rq == GetTouched([res |-> ctx.res, que |-> ctx.que], MeshOf(n))
             validity == GetResourceValidity(rq.res, MeshOf(n))
             touched == [ctx EXCEPT !.res = rq.res, !.que = rq.que]
         IN  CASE validity = "Indeterminate" -> touched
               [] validity = "Invalid" ->
                      [touched EXCEPT !.nodes[n].surface = FALSE]
               [] OTHER ->
                      LET rt == GetTouched(rq, TextureOf(n))
                      IN  [ctx EXCEPT !.res = rt.res, !.que = rt.que,
                                      !.nodes[n].renders = TRUE,
                                      !.nodes[n].determined = TRUE]

\* CameraImpl as constructed: eye is nan3(), the draws are empty;
\* emitted: the opaque tasks in the order the traversal has emitted them
NoCamera == [eye |-> "nan", opaque |-> <<>>, emitted |-> <<>>, phase |-> "idle"]
\* MapImpl before setMapConfigPath: empty paths, null mapConfig and
\* resources.auth, initialized = false; result: how the latest
\* prerequisitesCheck ended; failed: it has raised for the current paths
NoSession ==
    [mapConfigPath |-> FALSE, authPath |-> FALSE, mapConfig |-> FALSE,
     auth |-> FALSE, initialized |-> FALSE, result |-> "none",
     failed |-> FALSE, changes |-> 0]

\* MapImpl::renderNode: drawRenders emits the tasks that are ready;
\* again: the nodes it has been invoked for more than once in the frame
RenderNode(ctx, n) ==
    [ctx EXCEPT !.rendered = @ \cup {n},
                !.again = IF n \in ctx.rendered THEN @ \cup {n} ELSE @,
                !.emitted = IF ctx.nodes[n].renders /\ TaskReady(ctx.res, n)
                            THEN @ \cup {n} ELSE @]

\* trav->childs
Childs(nodes, n) == {t \in ChildrenOf(n) : nodes[t].exists}

ChildsOkWithMetaOnly(ctx, n) ==
    \A t \in Childs(ctx.nodes, n) : ctx.nodes[t].meta

\* bool ok after the loop over trav->childs
ChildsOk(ctx, n) ==
    \A t \in Childs(ctx.nodes, n) :
        /\ ctx.nodes[t].meta
        /\ ~(ctx.nodes[t].surface
               /\ (~ctx.nodes[t].renders \/ ~TaskReady(ctx.res, t)))

ChildItemsToRender(kids, loadOnly) ==
    {[node |-> t, loadOnly |-> FALSE] : t \in kids}

\* renderer.traverseQueue.emplace(t, loadOnly) for every t of trav->childs
ChildItems(kids, loadOnly) ==
    {[node |-> t, loadOnly |-> loadOnly] : t \in kids}

\* the hierarchical traversal from visibilityTest on
DecideStage(ctx, n, loadOnly, visible, coarse) ==
    IF ctx.done \/ ~visible THEN ctx
    ELSE IF coarse THEN (IF loadOnly THEN ctx ELSE RenderNode(ctx, n))
    ELSE LET fell == ~loadOnly /\ ~ChildsOk(ctx, n)
             c1 == IF fell
                   THEN [RenderNode(ctx, n) EXCEPT !.fallback = @ \cup {n}]
                   ELSE ctx
             lo == loadOnly \/ fell
             kids == Childs(ctx.nodes, n)
         IN  IF kids # {}
             THEN [c1 EXCEPT !.queue = @ \cup ChildItems(kids, lo)]
             ELSE IF ~lo THEN RenderNode(c1, n) ELSE c1

\* the flat traversal from visibilityTest on
FlatStage(ctx, n, loadOnly, visible, coarse, drawsBudget) ==
    IF ctx.done \/ ~visible THEN ctx
    ELSE LET c1 == TouchDraws(ctx, n)
             kids == Childs(c1.nodes, n)
         IN  IF coarse \/ kids = {}
             THEN (IF loadOnly THEN c1
                   ELSE RenderNode(DrawsStage(c1, n, drawsBudget), n))
             ELSE [c1 EXCEPT !.queue = @ \cup ChildItems(kids, loadOnly)]

OverMetaBudgetByOne(count) == count > MaxMetaUpdatesPerTick

\* statistics.currentNodeMetaUpdates++ >= options.maxNodeMetaUpdatesPerTick
OverMetaBudget(count) == count >= MaxMetaUpdatesPerTick

\* MapImpl::traverse(trav, loadOnly) for one item of renderer.traverseQueue;
\* metaUpdates: statistics.currentNodeMetaUpdates, metaRequests: the calls
\* of travDetermineMeta in this tick that got past the budget check
TraverseVisit(item, visible, coarse, metaBudget, drawsBudget) ==
    /\ alive
    /\ tree.phase = "traversing"
    /\ item \in tree.queue
    /\ metaBudget = ~OverMetaBudget(tree.metaUpdates)
    /\ LET n == item.node
           c0 == [nodes |-> [tree.nodes EXCEPT
                                ![n].visited = TRUE,
                                ![n].lastAccessTime = tree.tickIndex],
                  res |-> resources, que |-> prepareQueNew,
                  queue |-> tree.queue \ {item},
                  rendered |-> tree.rendered, emitted |-> tree.emitted,
                  fallback |-> tree.fallback, again |-> tree.again,
                  done |-> FALSE, crashed |-> FALSE]
           c1 == MetaStage(c0, n, metaBudget)
           c2 == IF c1.done THEN c1 ELSE TouchDraws(c1, n)
           c3 == DrawsStage(c2, n, drawsBudget)
           c4 == IF options.traverseMode = "hierarchical"
                 THEN DecideStage(c3, n, item.loadOnly, visible, coarse)
                 ELSE FlatStage(c1, n, item.loadOnly, visible, coarse,
                                drawsBudget)
       IN  /\ tree' = [nodes |-> c4.nodes, queue |-> c4.queue,
                       phase |-> "traversing", rendered |-> c4.rendered,
                       emitted |-> c4.emitted,
                       loadOnly |-> IF item.loadOnly
                                    THEN tree.loadOnly \cup {n}
                                    ELSE tree.loadOnly,
                       fallback |-> c4.fallback,
                       metaUpdates |-> IF tree.nodes[n].meta
                                       THEN tree.metaUpdates
                                       ELSE tree.metaUpdates + 1,
                       metaRequests |-> IF ~tree.nodes[n].meta /\ metaBudget
                                        THEN tree.metaRequests + 1
                                        ELSE tree.metaRequests,
                       again |-> c4.again, tickIndex |-> tree.tickIndex]
           /\ resources' = c4.res
           /\ prepareQueNew' = c4.que
           /\ alive' = ~c4.crashed
    /\ UNCHANGED <<options, prepareQue, takeItemIndex, downloads, invalidUrl,
                   invalidUrlNew, diskCache, fetching, frameIndex, workerPc,
                   workerR, workerStale, travMeta, refused, failedNames,
                   evicted, camera, session, culling>>

RECURSIVE Descendants(_)
Descendants(n) ==
    ChildrenOf(n) \cup UNION {Descendants(t) : t \in ChildrenOf(n)}

ClearedNodesKeepChilds(nodes, expired) ==
    [n \in TravNodes |->
        IF n \in expired /\ nodes[n].exists THEN NewNode(TRUE) ELSE nodes[n]]

\* MapImpl::traverseClearing from the root; expired: the nodes whose
\* lastAccessTime + 5 < renderer.tickIndex
ClearedNodes(nodes, expired) ==
    LET topmost == {n \in expired :
                       nodes[n].exists
                       /\ \A a \in TravNodes :
                              n \in Descendants(a) => a \notin expired}
    IN  [n \in TravNodes |->
            IF n \in topmost THEN NewNode(TRUE)
            ELSE IF \E a \in topmost : n \in Descendants(a)
            THEN NewNode(FALSE)
            ELSE nodes[n]]

\* MapImpl::renderTickPrepare once the map is initialized
RenderTickPrepare(expired) ==
    /\ alive
    /\ tree.phase = "idle"
    /\ \A n \in expired : tree.nodes[n].exists /\ ~tree.nodes[n].visited
    /\ tree' = [tree EXCEPT !.nodes = ClearedNodes(tree.nodes, expired)]
    /\ UNCHANGED <<options, resources, prepareQue, prepareQueNew, takeItemIndex,
                   downloads, invalidUrl, invalidUrlNew, diskCache, fetching,
                   frameIndex, workerPc, workerR, workerStale, travMeta, alive,
                   refused, failedNames, evicted, camera, session, culling>>

IsExpiredAtTheLimit(lastAccessTime, tickIndex) ==
    lastAccessTime + ClearAge <= tickIndex

\* if (trav->lastAccessTime + 5 < renderer.tickIndex)
IsExpired(lastAccessTime, tickIndex) == lastAccessTime + ClearAge < tickIndex

\* the nodes that the clearing walk of tick tickIndex finds expired
ExpiredNodes(nodes, tickIndex) ==
    {n \in TravNodes :
        nodes[n].exists /\ IsExpired(nodes[n].lastAccessTime, tickIndex)}

\* the ticks that start while the window is hidden, and the one that starts
\* before the next traversal
TickSteps == {1, ClearAge}

\* n ticks begin: MapImpl::renderTickPrepare with the tick counter advanced;
\* renderTickRender returns early in all of them but the last one, so that
\* nothing is visited between their clearing walks
RenderTickPrepareTicks(n) ==
    /\ alive
    /\ tree.phase = "idle"
    /\ tree.tickIndex + n <= MaxTick
    /\ tree' = [tree EXCEPT
                   !.tickIndex = @ + n,
                   !.nodes = ClearedNodes(tree.nodes,
                                 ExpiredNodes(tree.nodes, tree.tickIndex + n))]
    /\ UNCHANGED <<options, resources, prepareQue, prepareQueNew, takeItemIndex,
                   downloads, invalidUrl, invalidUrlNew, diskCache, fetching,
                   frameIndex, workerPc, workerR, workerStale, travMeta, alive,
                   refused, failedNames, evicted, camera, session, culling>>

(***************************************************************************)
(* The clearing walk along one chain of nodes from the root (lod 0) to a   *)
(* node of lod 4, each the only visited child of the one above; the node   *)
(* of lod 3 has x = 5 and y = 0.  tree.nodes maps the lod to the node.     *)
(***************************************************************************)
ChainLods == 0..4
\* id.y * 8 + id.x of the node of lod 3
ChainSlot == 0 * 8 + 5

ExaminedEverySecondRound(lod, tickIndex) ==
    lod = StaggeredLod =>
        ChainSlot % (2 * SlotPeriod)
            = tickIndex % (2 * SlotPeriod)

\* if (id.lod == 3) if ((id.y * 8 + id.x) % 64 != tickIndex % 64) return
Examined(lod, tickIndex) ==
    lod = StaggeredLod =>
        ChainSlot % SlotPeriod = tickIndex % SlotPeriod

\* trav->clear() on the node of lod l: its subtree is gone
ChainCleared(nodes, l) ==
    [m \in ChainLods |->
        IF m < l THEN nodes[m]
        ELSE IF m = l THEN NewNode(TRUE) ELSE NewNode(FALSE)]

RECURSIVE ChainWalk(_, _, _)
\* MapImpl::traverseClearing(trav) for the node of lod l
ChainWalk(nodes, l, tickIndex) ==
    IF l \notin ChainLods \/ ~nodes[l].exists THEN nodes
    ELSE IF ~Examined(l, tickIndex) THEN nodes
    ELSE IF IsExpired(nodes[l].lastAccessTime, tickIndex)
    THEN ChainCleared(nodes, l)
    ELSE ChainWalk(nodes, l + 1, tickIndex)

\* the traversal of one frame that goes down to the node of lod depth:
\* traverse sets lastAccessTime, travDetermineMeta resolves a node without
\* meta and creates its child
ChainVisited(nodes, depth, tickIndex) ==
    [m \in ChainLods |->
        IF m <= depth
        THEN [nodes[m] EXCEPT !.exists = TRUE, !.meta = TRUE,
                              !.lastAccessTime = tickIndex]
        ELSE IF m = depth + 1 /\ ~nodes[m].exists THEN NewNode(TRUE)
        ELSE nodes[m]]

\* the next tick begins: MapImpl::renderTickPrepare with traverseClearing
\* from the root
ChainTickPrepare ==
    /\ alive
    /\ tree.tickIndex < MaxChainTick
    /\ tree' = [tree EXCEPT
                   !.tickIndex = @ + 1,
                   !.phase = "prepared",
                   !.nodes = ChainWalk(tree.nodes, 0, tree.tickIndex + 1)]
    /\ UNCHANGED <<options, resources, prepareQue, prepareQueNew, takeItemIndex,
                   downloads, invalidUrl, invalidUrlNew, diskCache, fetching,
                   frameIndex, workerPc, workerR, workerStale, travMeta, alive,
                   refused, failedNames, evicted, camera, session, culling>>

\* MapImpl::renderTickRender of the tick: the traversal from the root
ChainTickRender(depth) ==
    /\ alive
    /\ tree.phase = "prepared"
    /\ tree' = [tree EXCEPT
                   !.phase = "rendered",
                   !.nodes = ChainVisited(tree.nodes, depth, tree.tickIndex)]
    /\ UNCHANGED <<options, resources, prepareQue, prepareQueNew, takeItemIndex,
                   downloads, invalidUrl, invalidUrlNew, diskCache, fetching,
                   frameIndex, workerPc, workerR, workerStale, travMeta, alive,
                   refused, failedNames, evicted, camera, session, culling>>

\* CameraImpl::clear, reset statistics: statistics.currentNodeMetaUpdates = 0
\* at the start of every render update
ClearStatistics(t) == [t EXCEPT !.metaUpdates = 0, !.metaRequests = 0]

\* MapImpl::renderTickRender up to the first pop of the traverse queue
RenderTickRender ==
    /\ alive
    /\ tree.phase = "idle"
    /\ tree' = ClearStatistics(
                   [nodes |-> [n \in TravNodes |->
                                 [tree.nodes[n] EXCEPT !.visited = FALSE]],
                    queue |-> {[node |-> RootNode, loadOnly |-> FALSE]},
                    phase |-> "traversing", rendered |-> {}, emitted |-> {},
                    loadOnly |-> {}, fallback |-> {},
                    metaUpdates |-> tree.metaUpdates,
                    metaRequests |-> tree.metaRequests, again |-> {},
                    tickIndex |-> tree.tickIndex])
    /\ UNCHANGED <<options, resources, prepareQue, prepareQueNew, takeItemIndex,
                   downloads, invalidUrl, invalidUrlNew, diskCache, fetching,
                   frameIndex, workerPc, workerR, workerStale, travMeta, alive,
                   refused, failedNames, evicted, camera, session, culling>>

\* MapImpl::renderTickRender: the traverse queue is empty, the loop ends
RenderTickDone ==
    /\ alive
    /\ tree.phase = "traversing"
    /\ tree.queue = {}
    /\ tree' = [tree EXCEPT !.phase = "idle"]
    /\ UNCHANGED <<options, resources, prepareQue, prepareQueNew, takeItemIndex,
                   downloads, invalidUrl, invalidUrlNew, diskCache, fetching,
                   frameIndex, workerPc, workerR, workerStale, travMeta, alive,
                   refused, failedNames, evicted, camera, session, culling>>

(***************************************************************************)
(* The map's prerequisites: setMapConfigPath, purgeMapConfig,              *)
(* purgeViewCache, testAndThrow and prerequisitesCheck.                    *)
(***************************************************************************)
\* testAndThrow(state, message): true, false, or MapConfigException
TestAndThrow(state) ==
    CASE state \in {"errorRetry", "downloaded", "downloading", "finalizing",
                    "initializing"} -> "false"
      [] state = "ready" -> "true"
      [] OTHER -> "raised"

\* state = finalizing for the held resources that purgeMapConfig lets go
Purged(res) ==
    [n \in DOMAIN res |->
        IF \/ session.mapConfig /\ n = MapConfigName
           \/ session.auth /\ n = AuthName
        THEN [res[n] EXCEPT !.state = "finalizing"]
        ELSE res[n]]

PurgeViewCacheKeepsRoot(t) == t

\* renderer.traverseRoot.reset() of purgeViewCache
PurgeViewCacheTree(t) == NoTree

\* MapImpl::setMapConfigPath with purgeMapConfig and purgeViewCache;
\* path, auth: the new mapConfigPath and authPath are not empty
SetMapConfigPath(path, auth) ==
    /\ alive
    /\ tree.phase # "traversing"
    /\ session.changes < MaxPathChanges
    /\ resources' = Purged(resources)
    /\ session' = [NoSession EXCEPT !.mapConfigPath = path, !.authPath = auth,
                                    !.result = session.result,
                                    !.changes = session.changes + 1]
    /\ tree' = PurgeViewCacheTree(tree)
    /\ UNCHANGED <<options, prepareQue, prepareQueNew, takeItemIndex,
                   downloads, invalidUrl, invalidUrlNew, diskCache, fetching,
                   frameIndex, workerPc, workerR, workerStale, travMeta, alive,
                   refused, failedNames, evicted, camera, culling>>

\* MapImpl::purgeViewCache called by the application: the map config and the
\* authentication are kept
PurgeViewCache ==
    /\ alive
    /\ tree.phase # "traversing"
    /\ session' = [session EXCEPT !.initialized = FALSE]
    /\ tree' = PurgeViewCacheTree(tree)
    /\ UNCHANGED <<options, resources, prepareQue, prepareQueNew, takeItemIndex,
                   downloads, invalidUrl, invalidUrlNew, diskCache, fetching,
                   frameIndex, workerPc, workerR, workerStale, travMeta, alive,
                   refused, failedNames, evicted, camera, culling>>

\* MapImpl::prerequisitesCheck, without virtual surfaces in the map config
PrerequisitesCheck ==
    /\ alive
    /\ tree.phase # "traversing"
    /\ LET rq0 == [res |-> resources, que |-> prepareQueNew]
           rq1 == IF session.auth THEN GetTouched(rq0, AuthName) ELSE rq0
           rq2 == IF session.mapConfig THEN GetTouched(rq1, MapConfigName)
                  ELSE rq1
           asked == ~session.initialized /\ session.mapConfigPath
           rq3 == IF asked /\ session.authPath THEN GetTouched(rq2, AuthName)
                  ELSE rq2
           authTest == IF asked /\ session.authPath
                       THEN TestAndThrow(rq3.res[AuthName].state)
                       ELSE "true"
           rq4 == IF asked /\ authTest = "true"
                  THEN GetTouched(rq3, MapConfigName)
                  ELSE rq3
           mapTest == IF authTest = "true"
                      THEN TestAndThrow(rq4.res[MapConfigName].state)
                      ELSE authTest
       IN  /\ resources' = rq4.res
           /\ prepareQueNew' = rq4.que
           /\ IF session.initialized
              THEN /\ session' = [session EXCEPT !.result = "true"]
                   /\ tree' = tree
              ELSE IF ~session.mapConfigPath
              THEN /\ session' = [session EXCEPT !.result = "false"]
                   /\ tree' = tree
              ELSE /\ session' =
                        [session EXCEPT
                            !.auth = @ \/ session.authPath,
                            !.mapConfig = @ \/ authTest = "true",
                            !.initialized = (mapTest = "true"),
                            !.result = mapTest,
                            !.failed = @ \/ mapTest = "raised"]
                   /\ tree' = IF mapTest = "true"
                              THEN [NoTree EXCEPT
                                       !.nodes[RootNode] = NewNode(TRUE),
                                       !.phase = "idle"]
                              ELSE tree
    /\ UNCHANGED <<options, prepareQue, takeItemIndex, downloads, invalidUrl,
                   invalidUrlNew, diskCache, fetching, frameIndex, workerPc,
                   workerR, workerStale, travMeta, alive, refused, failedNames,
                   evicted, camera, culling>>

(***************************************************************************)
(* The camera: CameraImpl::renderUpdate with the traversal's opaque tasks  *)
(* and sortOpaqueFrontToBack.  Centers and the eye lie on one axis.        *)
(***************************************************************************)
Centers == (0 - MaxCoord)..MaxCoord
Eyes == {0 - 1, 0, 1}

\* dot(va, va) with va = center - e
SqDist(center, e) == (center - e) * (center - e)

FrontToBackByCenter(a, b, e) == a < b

\* the comparator of sortOpaqueFrontToBack
FrontToBack(a, b, e) == SqDist(a, e) < SqDist(b, e)

\* the orders in which std::sort may leave tasks under the comparator
SortOutcomes(tasks, e) ==
    LET n == Len(tasks)
        perms == {p \in [1..n -> 1..n] : \A i, j \in 1..n : i # j => p[i] # p[j]}
    IN  {[i \in 1..n |-> tasks[p[i]]] : p \in
            {q \in perms : \A i, j \in 1..n :
                i < j => ~FrontToBack(tasks[q[j]], tasks[q[i]], e)}}

\* CameraImpl::renderUpdate up to the traversal: clear(), the two early
\* returns, and the eye that updateNavigation leaves
RenderUpdateBegin(ready, window, e) ==
    /\ alive
    /\ camera.phase # "traversal"
    /\ camera' = [eye |-> IF ready THEN e ELSE camera.eye,
                  opaque |-> <<>>, emitted |-> <<>>,
                  phase |-> IF ready /\ window THEN "traversal" ELSE "done"]
    /\ UNCHANGED <<options, resources, prepareQue, prepareQueNew, takeItemIndex,
                   downloads, invalidUrl, invalidUrlNew, diskCache, fetching,
                   frameIndex, workerPc, workerR, workerStale, travMeta, alive,
                   refused, failedNames, evicted, tree, session, culling>>

\* traverseRender reaches a renderNode: draws.opaque.emplace_back(convert(r))
TraverseEmit(center) ==
    /\ alive
    /\ camera.phase = "traversal"
    /\ Len(camera.emitted) < MaxTasks
    /\ camera' = [camera EXCEPT !.opaque = Append(@, center),
                                !.emitted = Append(@, center)]
    /\ UNCHANGED <<options, resources, prepareQue, prepareQueNew, takeItemIndex,
                   downloads, invalidUrl, invalidUrlNew, diskCache, fetching,
                   frameIndex, workerPc, workerR, workerStale, travMeta, alive,
                   refused, failedNames, evicted, tree, session, culling>>

\* the end of CameraImpl::renderUpdate: sortOpaqueFrontToBack()
RenderUpdateEnd ==
    /\ alive
    /\ camera.phase = "traversal"
    /\ \E sorted \in SortOutcomes(camera.opaque, camera.eye) :
           camera' = [camera EXCEPT !.opaque = sorted, !.phase = "done"]
    /\ UNCHANGED <<options, resources, prepareQue, prepareQueNew, takeItemIndex,
                   downloads, invalidUrl, invalidUrlNew, diskCache, fetching,
                   frameIndex, workerPc, workerR, workerStale, travMeta, alive,
                   refused, failedNames, evicted, tree, session, culling>>

(***************************************************************************)
(* Frustum culling: aabbTest(aabb, planes).  A plane is <<a, b, c, d>>,    *)
(* a box is <<lower, upper>> with three coordinates each.                  *)
(***************************************************************************)
Axes == 1..3
BoxCoords == (0 - MaxBox)..MaxBox
Boxes ==
    {b \in [1..2 -> [Axes -> BoxCoords]] : \A k \in Axes : b[1][k] <= b[2][k]}
Planes == [1..4 -> {0 - 1, 0, 1}] \cup
              {[k \in 1..4 |-> IF k = 4 THEN d ELSE IF k = a THEN s ELSE 0] :
                  a \in Axes, s \in {0 - 1, 1},
                  d \in (0 - MaxOffset)..MaxOffset}
PlaneCount == 6

NoCulling ==
    [aabb |-> <<>>, done |-> 0, result |-> "none", outside |-> FALSE]

PVertexLower(aabb, p) == [k \in Axes |-> aabb[1][k]]

\* current p-vertex: aabb[!!(p[k] > 0)](k)
PVertex(aabb, p) ==
    [k \in Axes |-> IF p[k] > 0 THEN aabb[2][k] ELSE aabb[1][k]]

\* dot(vec4to3(p), v)
Dot3(p, v) == p[1] * v[1] + p[2] * v[2] + p[3] * v[3]

\* if (d < -p[3]) return false
PlaneRejects(aabb, p) == Dot3(p, PVertex(aabb, p)) < 0 - p[4]

\* the 8 corners of the box
Corners(aabb) == {c \in [Axes -> BoxCoords] : \A k \in Axes : c[k] \in {aabb[1][k], aabb[2][k]}}

\* a caller enters aabbTest with a box
AabbTestBegin(aabb) ==
    /\ alive
    /\ culling.result = "none"
    /\ culling' = [aabb |-> aabb, done |-> 0, result |-> "running",
                   outside |-> FALSE]
    /\ UNCHANGED <<options, resources, prepareQue, prepareQueNew, takeItemIndex,
                   downloads, invalidUrl, invalidUrlNew, diskCache, fetching,
                   frameIndex, workerPc, workerR, workerStale, travMeta, alive,
                   refused, failedNames, evicted, tree, camera, session>>

\* one pass of the loop of aabbTest, with planes[i] = p; outside: whether
\* all corners of the box are strictly on the negative side of a plane seen
AabbTestPlane(p) ==
    /\ alive
    /\ culling.result = "running"
    /\ culling' =
           [aabb |-> culling.aabb,
            done |-> culling.done + 1,
            result |-> IF PlaneRejects(culling.aabb, p) THEN "false"
                       ELSE IF culling.done + 1 = PlaneCount THEN "true"
                       ELSE "running",
            outside |-> culling.outside
                          \/ \A c \in Corners(culling.aabb) :
                                 Dot3(p, c) + p[4] < 0]
    /\ UNCHANGED <<options, resources, prepareQue, prepareQueNew, takeItemIndex,
                   downloads, invalidUrl, invalidUrlNew, diskCache, fetching,
                   frameIndex, workerPc, workerR, workerStale, travMeta, alive,
                   refused, failedNames, evicted, tree, camera, session>>

\* the data thread takes n through the pipeline: the fetch and then
\* loadResource end in ready, in errorDownload or in errorLoad
DataThreadFinishes(n, outcome) ==
    /\ alive
    /\ n \in DOMAIN resources
    /\ n \in prepareQueNew
    /\ resources[n].state = "initializing"
    /\ resources' = [resources EXCEPT ![n].state = outcome]
    /\ UNCHANGED <<options, prepareQue, prepareQueNew, takeItemIndex,
                   downloads, invalidUrl, invalidUrlNew, diskCache, fetching,
                   frameIndex, workerPc, workerR, workerStale, travMeta, alive,
                   refused, failedNames, evicted, frontEnd>>

(***************************************************************************)
(* The program: construction, then any interleaving of the threads' steps. *)
(***************************************************************************)
\* the pipeline at rest with the options opts and the resource map res
InitPipeline(opts, res) ==
    /\ options = opts
    /\ resources = res
    /\ prepareQue = {}
    /\ prepareQueNew = {}
    /\ takeItemIndex = 0
    /\ downloads = 0
    /\ invalidUrl = {}
    /\ invalidUrlNew = {}
    /\ diskCache = <<>>
    /\ fetching = {}
    /\ frameIndex = 0
    /\ workerPc = "idle"
    /\ workerR = NoName
    /\ workerStale = FALSE
    /\ travMeta = NoMeta
    /\ alive = TRUE
    /\ refused = {}
    /\ failedNames = {}
    /\ evicted = NoEvict

\* the state after MapImpl's construction with the options opts
InitBase(opts) == InitPipeline(opts, <<>>)

\* a MapImpl whose mapconfig path was never set: no traverse root, no session
InitWith(opts) ==
    /\ InitBase(opts)
    /\ tree = NoTree
    /\ camera = NoCamera
    /\ session = NoSession
    /\ culling = NoCulling

OptionSets ==
    [maxConcurrentDownloads : 1..MaxDownloadLimit,
     maxResourcesMemory : {MemoryLimit}]

(***************************************************************************)
(* Spec: the download pipeline and the cache with two remote resources.    *)
(***************************************************************************)
PipeNames == {"u://b", "u://c.json"}

\* the responses the fetcher gives in Spec
MainResponses ==
    {resp \in Responses :
        resp.code \in {204, 404} /\ resp.contentType = "ok"
        /\ resp.size >= SizeThreshold}

Init == \E opts \in OptionSets : InitWith(opts)

Next ==
    \/ \E n \in PipeNames : GetMapResource(n, AvailTestOf(n))
    \/ \E k \in FrameSteps : RenderTicks(k)
    \/ DataRenderTick
    \/ DataTickTake
    \/ DataTickCheck
    \/ DataTickDispatch
    \/ \E n \in PipeNames, resp \in MainResponses, caught \in BOOLEAN :
           FetchedFile(n, resp, caught)

Spec == Init /\ [][Next]_vars

(***************************************************************************)
(* SpecFetch: one remote resource with any availability test and one       *)
(* internal resource; the fetcher gives every response, redirects too.     *)
(***************************************************************************)
FetchNames == {"u://f", "mem"}

\* the availability tests a creator may attach to n
AvailChoices(n) == IF IsUrl(n) THEN AvailTypes ELSE {"none"}

NextFetch ==
    \/ \E n \in FetchNames, avail \in AvailTypes :
           avail \in AvailChoices(n) /\ GetMapResource(n, avail)
    \/ DataRenderTick
    \/ DataTickTake
    \/ DataTickCheck
    \/ DataTickDispatch
    \/ \E n \in FetchNames, resp \in Responses, caught \in BOOLEAN :
           FetchedFile(n, resp, caught)

SpecFetch == Init /\ [][NextFetch]_vars

(***************************************************************************)
(* SpecMeta: the traverse node and the metatiles of its two layers, with   *)
(* the whole pipeline and the eviction pass behind them.                   *)
(***************************************************************************)
MetaResponses ==
    {r \in Responses :
        r.code \in {204, 404} /\ r.contentType = "ok" /\ r.size > SizeThreshold}

NextMeta ==
    \/ TravDetermineMeta
    \/ TraverseClearing
    \/ \E n \in FrameSteps : RenderTicks(n)
    \/ DataRenderTick
    \/ DataTickTake
    \/ DataTickCheck
    \/ DataTickDispatch
    \/ \E n \in MetaNames, resp \in MetaResponses, caught \in BOOLEAN :
           FetchedFile(n, resp, caught)

SpecMeta == Init /\ [][NextMeta]_vars

(***************************************************************************)
(* SpecEvict: an internal and a remote resource that are touched one by    *)
(* one over two grace windows, so that the candidates of a pass differ in  *)
(* access tick and in cost.                                                *)
(***************************************************************************)
EvictNames == {"mem", "u://a"}

NextEvict ==
    \/ \E n \in EvictNames : GetMapResource(n, AvailTestOf(n))
    \/ \E n \in FrameSteps : LateRenderTicks(n)
    \/ DataRenderTick
    \/ DataTickTake
    \/ DataTickCheck
    \/ DataTickDispatch
    \/ \E n \in EvictNames, resp \in MetaResponses, caught \in BOOLEAN :
           FetchedFile(n, resp, caught)

SpecEvict == Init /\ [][NextEvict]_vars

(***************************************************************************)
(* SpecSession: the application sets the paths and ticks while the data    *)
(* thread fetches and loads the authentication and the map config.         *)
(***************************************************************************)
SessionNames == {MapConfigName, AuthName}

NextSession ==
    \/ \E path \in BOOLEAN, auth \in BOOLEAN : SetMapConfigPath(path, auth)
    \/ PrerequisitesCheck
    \/ DataRenderTick
    \/ DataTickTake
    \/ DataTickCheck
    \/ DataTickDispatch
    \/ \E n \in SessionNames, resp \in MetaResponses, caught \in BOOLEAN :
           FetchedFile(n, resp, caught)

InitSession ==
    InitWith([maxConcurrentDownloads |-> MaxDownloadLimit,
              maxResourcesMemory |-> MemoryLimit])

SpecSession == InitSession /\ [][NextSession]_vars

(***************************************************************************)
(* SpecCull: calls of aabbTest with any box and any six planes.            *)
(***************************************************************************)
NextCull ==
    \/ \E aabb \in Boxes : AabbTestBegin(aabb)
    \/ \E p \in Planes : AabbTestPlane(p)

SpecCull == InitSession /\ [][NextCull]_vars

(***************************************************************************)
(* SpecCamera: the frames of one camera.                                   *)
(***************************************************************************)
NextCamera ==
    \/ \E ready \in BOOLEAN, window \in BOOLEAN, e \in Eyes :
           RenderUpdateBegin(ready, window, e)
    \/ \E center \in Centers : TraverseEmit(center)
    \/ RenderUpdateEnd

SpecCamera == InitSession /\ [][NextCamera]_vars

(***************************************************************************)
(* SpecTrav: the frames of the render thread over the traverse tree, with  *)
(* the data thread finishing the tiles' resources at any moment.           *)
(***************************************************************************)
\* the state after prerequisitesCheck has created the traverse root
InitTravWith(mode) ==
    /\ InitBase([maxConcurrentDownloads |-> 1,
                 maxResourcesMemory |-> MemoryLimit,
                 traverseMode |-> mode])
    /\ tree = [NoTree EXCEPT !.nodes[RootNode] = NewNode(TRUE),
                             !.phase = "idle"]
    /\ camera = NoCamera
    /\ session = NoSession
    /\ culling = NoCulling

\* options.traverseMode = TraverseMode::Hierarchical
InitTrav == InitTravWith("hierarchical")

\* either traverse mode
InitModes == \E mode \in {"hierarchical", "flat"} : InitTravWith(mode)

FinalStates == {"ready", "errorDownload"}

NextTrav ==
    \/ \E expired \in SUBSET TravNodes : RenderTickPrepare(expired)
    \/ RenderTickRender
    \/ \E item \in [node : TravNodes, loadOnly : BOOLEAN],
          visible \in BOOLEAN, coarse \in BOOLEAN, metaBudget \in BOOLEAN,
          drawsBudget \in BOOLEAN :
           TraverseVisit(item, visible, coarse, metaBudget, drawsBudget)
    \/ RenderTickDone
    \/ \E n \in TileNames, outcome \in FinalStates :
           DataThreadFinishes(n, outcome)

SpecTrav == InitTrav /\ [][NextTrav]_vars

SpecModes == InitModes /\ [][NextTrav]_vars

\* the while loop of renderTickRender runs on until the queue is empty
LoopFairness ==
    /\ WF_vars(\E item \in [node : TravNodes, loadOnly : BOOLEAN],
                  visible \in BOOLEAN, coarse \in BOOLEAN,
                  metaBudget \in BOOLEAN, drawsBudget \in BOOLEAN :
                   TraverseVisit(item, visible, coarse, metaBudget,
                                 drawsBudget))
    /\ WF_vars(RenderTickDone)

SpecLoop == InitModes /\ [][NextTrav]_vars /\ LoopFairness

(***************************************************************************)
(* SpecClear: the traversal over the ticks, with the clearing walk of      *)
(* renderTickPrepare at the start of every tick; every download succeeds.  *)
(***************************************************************************)
NextClear ==
    \/ \E n \in TickSteps : RenderTickPrepareTicks(n)
    \/ RenderTickRender
    \/ \E item \in [node : TravNodes, loadOnly : BOOLEAN],
          visible \in BOOLEAN, coarse \in BOOLEAN, metaBudget \in BOOLEAN :
           TraverseVisit(item, visible, coarse, metaBudget, TRUE)
    \/ RenderTickDone
    \/ \E n \in TileNames : DataThreadFinishes(n, "ready")

SpecClear == InitTrav /\ [][NextClear]_vars

(***************************************************************************)
(* SpecLive: the pipeline with a fair render thread that touches both      *)
(* resources again and again, a fair worker and a fetcher that completes   *)
(* every fetch.                                                            *)
(***************************************************************************)
LiveNames == {"u://a", "u://c.json"}

\* the responses that do not redirect
LiveResponses ==
    {resp \in Responses : resp.code \notin RedirectCodes /\ resp.contentType = "ok"}

NextLive ==
    \/ \E n \in LiveNames : GetMapResource(n, AvailTestOf(n))
    \/ DataRenderTick
    \/ DataTickTake
    \/ DataTickCheck
    \/ DataTickDispatch
    \/ \E n \in LiveNames, resp \in LiveResponses :
           FetchedFile(n, resp, TRUE)

\* the worker takes an item if the pending queue is non-empty again and again
Fairness ==
    /\ \A n \in LiveNames : WF_vars(GetMapResource(n, AvailTestOf(n)))
    /\ WF_vars(DataRenderTick)
    /\ SF_vars(DataTickTake /\ prepareQue # {})
    /\ WF_vars(DataTickCheck)
    /\ WF_vars(DataTickDispatch)
    /\ \A n \in LiveNames :
           WF_vars(\E resp \in LiveResponses : FetchedFile(n, resp, TRUE))

SpecLive == InitSession /\ [][NextLive]_vars /\ Fairness

(***************************************************************************)
(* SpecWrap: the eviction pass over two loaded resources of any cost that  *)
(* the accumulators' width can hold, touched or left alone over two grace  *)
(* windows.                                                                *)
(***************************************************************************)
WrapNames == {"mem", "u://b"}

\* the costs a decoder may leave in a resource: small ones and the largest
WrapCosts == [ram : {1, MemModulus - 1}, gpu : {0, 1}]

\* a loaded resource with the costs c
LoadedWith(c) ==
    [NewResource("none") EXCEPT !.state = "ready",
                                !.ramMemoryCost = c.ram,
                                !.gpuMemoryCost = c.gpu]

InitWrap ==
    /\ \E costs \in [WrapNames -> WrapCosts] :
           InitPipeline([maxConcurrentDownloads |-> MaxDownloadLimit,
                         maxResourcesMemory |-> MemoryLimit],
                        [n \in WrapNames |-> LoadedWith(costs[n])])
    /\ tree = NoTree
    /\ camera = NoCamera
    /\ session = NoSession
    /\ culling = NoCulling

NextWrap ==
    \/ \E n \in WrapNames : GetMapResource(n, AvailTestOf(n))
    \/ \E n \in FrameSteps : LateRenderTicks(n)
    \/ DataRenderTick

SpecWrap == InitWrap /\ [][NextWrap]_vars

(***************************************************************************)
(* SpecRoot: the application sets the paths, purges the view cache and     *)
(* ticks; the traversal builds the tree while the map is initialized and   *)
(* every download succeeds.                                                *)
(***************************************************************************)
InitRoot ==
    /\ InitBase([maxConcurrentDownloads |-> 1,
                 maxResourcesMemory |-> MemoryLimit,
                 traverseMode |-> "hierarchical"])
    /\ tree = NoTree
    /\ camera = NoCamera
    /\ session = NoSession
    /\ culling = NoCulling

NextRoot ==
    \/ \E path \in BOOLEAN : SetMapConfigPath(path, FALSE)
    \/ PurgeViewCache
    \/ PrerequisitesCheck
    \/ RenderTickRender
    \/ \E item \in [node : TravNodes, loadOnly : BOOLEAN],
          coarse \in BOOLEAN, metaBudget \in BOOLEAN :
           TraverseVisit(item, TRUE, coarse, metaBudget, TRUE)
    \/ RenderTickDone
    \/ \E n \in TileNames \cup {MapConfigName}, outcome \in FinalStates :
           DataThreadFinishes(n, outcome)

SpecRoot == InitRoot /\ [][NextRoot]_vars

(***************************************************************************)
(* SpecChain: the ticks of a map whose traversal goes down one chain of    *)
(* nodes, to lod 2 at least, or is skipped while the window is hidden.     *)
(***************************************************************************)
ChainDepths == {2, 3, 4}

InitChain ==
    /\ InitBase([maxConcurrentDownloads |-> 1,
                 maxResourcesMemory |-> MemoryLimit])
    /\ tree = [nodes |-> [m \in ChainLods |-> NewNode(m = 0)],
               tickIndex |-> 0, phase |-> "rendered"]
    /\ camera = NoCamera
    /\ session = NoSession
    /\ culling = NoCulling

NextChain ==
    \/ ChainTickPrepare
    \/ \E depth \in ChainDepths : ChainTickRender(depth)

SpecChain == InitChain /\ [][NextChain]_vars

(***************************************************************************)
(* C1: every change of a resource's state is one of the edges of the       *)
(* state graph: initializing->downloading, initializing->downloaded,       *)
(* initializing->errorLoad, downloading->downloaded,                       *)
(* downloading->errorDownload, downloaded->ready, downloaded->errorLoad,   *)
(* ready/errorDownload/errorLoad->finalizing, finalizing->initializing.    *)
(***************************************************************************)
ListedEdges ==
    {<<"initializing", "downloading">>, <<"initializing", "downloaded">>,
     <<"initializing", "errorLoad">>, <<"downloading", "downloaded">>,
     <<"downloading", "errorDownload">>, <<"downloaded", "ready">>,
     <<"downloaded", "errorLoad">>, <<"ready", "finalizing">>,
     <<"errorDownload", "finalizing">>, <<"errorLoad", "finalizing">>,
     <<"finalizing", "initializing">>}

\* the names whose resource object is the same before and after the step
Kept == DOMAIN resources \cap DOMAIN resources'

C1_OnlyListedEdges ==
    [][\A n \in Kept :
          resources[n].state # resources'[n].state =>
              <<resources[n].state, resources'[n].state>> \in ListedEdges]_vars

(***************************************************************************)
(* C2: a resource's state never moves to an earlier stage of               *)
(* initializing -> downloading -> downloaded -> ready; a resource that     *)
(* dataTick has put into downloading never returns to initializing.        *)
(***************************************************************************)
Progression == {"initializing", "downloading", "downloaded", "ready"}

Stage(s) ==
    CASE s = "initializing" -> 0
      [] s = "downloading" -> 1
      [] s = "downloaded" -> 2
      [] OTHER -> 3

C2_NeverBackward ==
    [][\A n \in Kept :
          (resources[n].state \in Progression
             /\ resources'[n].state \in Progression) =>
              Stage(resources[n].state) <= Stage(resources'[n].state)]_vars

(***************************************************************************)
(* C3: in every reachable state the number of resources whose state is     *)
(* downloading is at most maxConcurrentDownloads.                          *)
(***************************************************************************)
Downloading == {n \in DOMAIN resources : resources[n].state = "downloading"}

C3_DownloadingWithinLimit ==
    Cardinality(Downloading) <= options.maxConcurrentDownloads

(***************************************************************************)
(* C4: a resource that dataTick does not start because the download limit  *)
(* is reached stays initializing and is not dropped from the pending work: *)
(* it is attempted again on a following tick.                              *)
(* Original statement, as a state predicate: a refused resource that is    *)
(* initializing and that dataTick does not hold is in one of the two       *)
(* pending sets.                                                           *)
(***************************************************************************)
HeldByWorker(n) == workerPc # "idle" /\ workerR = n

C4_RefusedStaysPending ==
    \A n \in refused :
        (Exists(n) /\ resources[n].state = "initializing" /\ ~HeldByWorker(n))
            => n \in prepareQue \cup prepareQueNew

\* the step of dataTick in which the gate refuses n
RefusalStep(n) ==
    /\ workerPc = "dispatch"
    /\ workerR = n
    /\ workerPc' = "idle"
    /\ n \in refused'

\* dataTick looks n up in the disk cache and finds it
CacheHit(n) == ~IsJson(n) /\ AvailableInCache(n)

(***************************************************************************)
(* C4 as amended: the refusing dataTick call sets the resource back to     *)
(* initializing and leaves both pending sets as they are (it has popped    *)
(* the resource and does not insert it again); a refused resource enters   *)
(* prepareQue only by the swap of dataRenderTick, from prepareQueNew, and  *)
(* enters prepareQueNew only by a touchResource that leaves it             *)
(* initializing; when dataTick dispatches it again with a free slot and    *)
(* no copy in the disk cache, it is fetched and stays downloading.         *)
(***************************************************************************)
C4_RefusedRetriedAfterTouch ==
    [][\A n \in Names :
          /\ RefusalStep(n) =>
                 /\ resources'[n].state = "initializing"
                 /\ prepareQue' = prepareQue
                 /\ prepareQueNew' = prepareQueNew
                 /\ fetching' = fetching
                 /\ downloads' = downloads
          /\ (n \in refused /\ n \notin prepareQue /\ n \in prepareQue') =>
                 n \in prepareQueNew
          /\ (n \in refused /\ n \notin prepareQueNew /\ n \in prepareQueNew')
                 => /\ resources'[n].lastAccessTick = frameIndex
                    /\ resources'[n].state = "initializing"
          /\ (n \in refused /\ workerPc = "dispatch" /\ workerR = n
                /\ workerPc' = "idle"
                /\ downloads < options.maxConcurrentDownloads
                /\ ~CacheHit(n)) =>
                 /\ n \in fetching'
                 /\ resources'[n].state = "downloading"
                 /\ downloads' = downloads + 1]_vars

\* a refused resource has been popped again and the gate is open for it
C4_Witness ==
    \E n \in refused :
        /\ workerPc = "dispatch"
        /\ workerR = n
        /\ resources[n].state = "downloading"
        /\ downloads < options.maxConcurrentDownloads

(***************************************************************************)
(* C5: fetchedFile re-issues the fetch for at most 5 consecutive redirect  *)
(* responses; once a task has received 6 of them it is in errorDownload    *)
(* and no further fetch is running for it.                                 *)
(***************************************************************************)
C5_SixthRedirectFails ==
    \A n \in DOMAIN resources :
        resources[n].redirectionsCount >= RedirectLimit + 1 =>
            resources[n].state = "errorDownload" /\ n \notin fetching

(***************************************************************************)
(* C7: for a response with a code that is neither an error nor a redirect  *)
(* (0 < code < 400) the availability test alone decides: negativeCode      *)
(* rejects exactly the listed codes, negativeType exactly the listed mime  *)
(* type, negativeSize exactly the sizes up to the threshold; a rejected    *)
(* download ends in errorDownload, an accepted one in downloaded, and in   *)
(* both cases fetchedFile returns normally and releases the slot.          *)
(***************************************************************************)
\* the rejection that the availability test of the resource stands for
MeantToReject(avail, resp) ==
    CASE avail = "negativeCode" -> resp.code \in NegativeCodes
      [] avail = "negativeType" -> resp.contentType = NegativeMime
      [] avail = "negativeSize" -> resp.size <= SizeThreshold
      [] OTHER -> FALSE

PlainSuccess(resp) ==
    resp.code > 0 /\ resp.code < 400 /\ resp.code \notin RedirectCodes

C7_AvailabilityAloneDecides ==
    [][\A n \in Names, resp \in Responses, caught \in BOOLEAN :
          (PlainSuccess(resp) /\ FetchedFile(n, resp, caught)) =>
              /\ resources'[n].state =
                     IF MeantToReject(resources[n].availTest, resp)
                     THEN "errorDownload" ELSE "downloaded"
              /\ downloads' = downloads - 1
              /\ n \notin fetching'
              /\ alive']_vars

(***************************************************************************)
(* C6: a fetch of a resource with the negativeCode availability test that  *)
(* completes with code 404 leaves the resource in errorDownload and its    *)
(* name in the blacklist staging set; travDetermineMeta then keeps no      *)
(* metatile for that layer and resolves the node from the layers whose     *)
(* metatile is valid.                                                      *)
(***************************************************************************)
\* the layers whose metatile download has ended with 404
NotFoundLayers ==
    {i \in Layers :
        /\ UrlMeta(i) \in DOMAIN resources
        /\ resources[UrlMeta(i)].state = "errorDownload"
        /\ resources[UrlMeta(i)].code = 404}

\* the layers whose metatile is ready
ReadyLayers ==
    {i \in Layers :
        /\ UrlMeta(i) \in DOMAIN resources
        /\ resources[UrlMeta(i)].state = "ready"}

C6_NotFoundLayerIsAbsent ==
    [][/\ \A n \in DOMAIN resources, caught \in BOOLEAN :
          \A resp \in {r \in Responses : r.code = 404} :
              (/\ resources[n].availTest = "negativeCode"
               /\ FetchedFile(n, resp, caught)) =>
                  /\ resources'[n].state = "errorDownload"
                  /\ n \in invalidUrlNew'
       /\ (/\ TravDetermineMeta
           /\ NotFoundLayers # {}
           /\ ReadyLayers # {}
           /\ NotFoundLayers \cup ReadyLayers = Layers) =>
              /\ travMeta'.resolved
              /\ travMeta'.metaTiles = ReadyLayers
              /\ travMeta'.metaTiles \cap NotFoundLayers = {}
              /\ alive']_vars

C6_Witness ==
    /\ travMeta.resolved
    /\ travMeta.metaTiles = {2}
    /\ "u://a" \in DOMAIN resources
    /\ resources["u://a"].availTest = "negativeCode"
    /\ resources["u://a"].state = "errorDownload"
    /\ resources["u://a"].code = 404
    /\ "u://a" \in invalidUrlNew \cup invalidUrl

(***************************************************************************)
(* C8: once a download of a name has ended in errorDownload, the fetcher   *)
(* is never again asked to fetch that name.                                *)
(***************************************************************************)
C8_FailedNeverFetchedAgain ==
    [][\A n \in failedNames : ~(n \notin fetching /\ n \in fetching')]_vars

(***************************************************************************)
(* C9: the eviction pass of dataRenderTick leaves untouched, and in the    *)
(* cache, every resource that was accessed within the grace window, or is  *)
(* held by someone besides the cache map, or is downloading, also when the *)
(* cache is over budget and there is no candidate at all.                  *)
(***************************************************************************)
Protected(n) ==
    \/ resources[n].lastAccessTick + GraceTicks >= frameIndex
    \/ UseCount(n) > 1
    \/ resources[n].state = "downloading"

C9_EvictionSparesProtected ==
    [][DataRenderTick =>
          \A n \in DOMAIN resources :
              Protected(n) =>
                  /\ n \in DOMAIN resources'
                  /\ resources'[n] = resources[n]]_vars

C9_Witness ==
    /\ evicted.ran
    /\ evicted.over
    /\ evicted.cands = {}
    /\ \E n \in evicted.spared :
           n \in DOMAIN resources /\ resources[n].state = "downloading"
    /\ \E n \in evicted.spared :
           n \in DOMAIN resources /\ resources[n].state = "ready"

(***************************************************************************)
(* C10 (as claimed): after a pass that started over budget, the resources  *)
(* still in the cache cost at most maxResourcesMemory in total, or every   *)
(* candidate has been erased.                                              *)
(***************************************************************************)
RECURSIVE TotalCost(_, _)
\* RAM plus GPU cost of the names ns, as a number
TotalCost(res, ns) ==
    IF ns = {} THEN 0
    ELSE LET n == CHOOSE m \in ns : TRUE
         IN  res[n].ramMemoryCost + res[n].gpuMemoryCost
                 + TotalCost(res, ns \ {n})

StartsOverBudget ==
    TotalCost(resources, DOMAIN resources) > options.maxResourcesMemory

Handled ==
    {n \in Candidates(resources, frameIndex) :
        IF resources[n].state = "finalizing"
        THEN n \notin DOMAIN resources'
        ELSE n \in DOMAIN resources' /\ resources'[n].state = "finalizing"}

TouchedSincePass(n) ==
    resources[n].lastAccessTick + GraceTicks >= evicted.frame

C11_TouchedFinalizingSurvives ==
    [][\A n \in DOMAIN resources :
          /\ (/\ resources[n].state = "finalizing"
              /\ GetMapResource(n, resources[n].availTest)) =>
                 /\ resources'[n].state = "initializing"
                 /\ n \in prepareQueNew'
          /\ (/\ DataRenderTick
              /\ n \in evicted.marked
              /\ TouchedSincePass(n)) =>
                 n \in DOMAIN resources']_vars

C11_Witness ==
    /\ evicted.over
    /\ evicted.marked \cup evicted.erased # {}
    /\ \E n \in evicted.rescued :
           n \in DOMAIN resources /\ resources[n].state # "finalizing"

(***************************************************************************)
(* C12: when the total RAM+GPU cost of the cached resources is at most     *)
(* maxResourcesMemory, dataRenderTick changes no resource and erases none, *)
(* whatever their access ticks and reference counts are.                   *)
(***************************************************************************)
C12_UnderBudgetNoEviction ==
    [][(DataRenderTick /\ ~StartsOverBudget) => resources' = resources]_vars

C12_Witness ==
    /\ evicted.ran
    /\ ~evicted.over
    /\ \E n \in evicted.cands :
           /\ n \in DOMAIN resources
           /\ resources[n].state = "ready"
           /\ ~TouchedSincePass(n)
           /\ TotalCost(resources, {n}) = options.maxResourcesMemory

(***************************************************************************)
(* C13: an over-budget pass handles the candidates in the order of         *)
(* ascending lastAccessTick and, for equal ticks, descending cost: a       *)
(* candidate is marked or erased only if every candidate before it in that *)
(* order is marked or erased in the same pass.                             *)
(***************************************************************************)
\* m comes before n in the stated order
OrderedBefore(m, n) ==
    \/ resources[m].lastAccessTick < resources[n].lastAccessTick
    \/ /\ resources[m].lastAccessTick = resources[n].lastAccessTick
       /\ TotalCost(resources, {m}) > TotalCost(resources, {n})

C13_HandledInOrder ==
    [][(DataRenderTick /\ StartsOverBudget) =>
          \A n \in Handled, m \in Candidates(resources, frameIndex) :
              OrderedBefore(m, n) => m \in Handled]_vars

C13_Witness ==
    /\ evicted.over
    /\ \E h \in evicted.marked, u \in evicted.cands :
           /\ u \notin evicted.marked \cup evicted.erased
           /\ {h, u} \subseteq DOMAIN resources
           /\ resources[h].state = "finalizing"
           /\ ~TouchedSincePass(u)
           /\ resources[h].lastAccessTick < resources[u].lastAccessTick
           /\ TotalCost(resources, {h}) < TotalCost(resources, {u})

(***************************************************************************)
(* The hierarchical traversal.                                             *)
(***************************************************************************)
QueueItems == [node : TravNodes, loadOnly : BOOLEAN]

\* the children of n that keep n from being replaced by them
BlockingChilds(nodes, res, n) ==
    {t \in Childs(nodes, n) :
        \/ ~nodes[t].meta
        \/ nodes[t].surface /\ (~nodes[t].renders \/ ~TaskReady(res, t))}

\* below a node rendered as fallback nothing is rendered or emitted, and
\* what is visited or waits in the traverse queue is load-only
LoadOnlyBelowFallback ==
    \A n \in tree.fallback : \A d \in Descendants(n) :
        /\ d \notin tree.rendered
        /\ d \notin tree.emitted
        /\ tree.nodes[d].exists /\ tree.nodes[d].visited => d \in tree.loadOnly
        /\ [node |-> d, loadOnly |-> FALSE] \notin tree.queue

\* C14: in hierarchical mode a visible node that is visited with
\* loadOnly = false, fails the coarseness test and has a child without
\* resolved metadata, or with a surface but without draw tasks that are all
\* ready, is rendered in that frame; its children are queued load-only, and
\* every descendant visited in that frame is load-only and emits no draws.
C14_FallbackToCoarserNode ==
    [][/\ \A item \in QueueItems, visible \in BOOLEAN, coarse \in BOOLEAN,
             metaBudget \in BOOLEAN, drawsBudget \in BOOLEAN :
           ( /\ TraverseVisit(item, visible, coarse, metaBudget, drawsBudget)
             /\ ~item.loadOnly /\ visible /\ ~coarse
             /\ tree'.nodes[item.node].meta
             /\ BlockingChilds(tree'.nodes, resources', item.node) # {} )
           => /\ item.node \in tree'.rendered
              /\ \A t \in Childs(tree'.nodes, item.node) :
                     [node |-> t, loadOnly |-> TRUE] \in tree'.queue
       /\ LoadOnlyBelowFallback']_vars

\* a frame in which the root is the fallback while a child that was visited
\* load-only holds draw tasks that are all ready
C14_Witness ==
    \E n \in tree.fallback : \E d \in Descendants(n) \cap tree.loadOnly :
        /\ n \in tree.rendered
        /\ tree.nodes[d].renders
        /\ TaskReady(resources, d)
        /\ d \notin tree.emitted

\* the children of n whose mesh has failed for good
FailedChilds(nodes, res, n) ==
    {t \in Childs(nodes, n) :
        HasGeometry(t) /\ GetResourceValidity(res, MeshOf(t)) = "Invalid"}

\* C15: in hierarchical mode a child whose mesh resource is Invalid never
\* emits draw tasks, and whenever its parent is visited with
\* loadOnly = false, is visible and fails the coarseness test, the parent
\* is rendered as the fallback.
C15_FailedChildKeepsFallback ==
    [][/\ \A item \in QueueItems, visible \in BOOLEAN, coarse \in BOOLEAN,
             metaBudget \in BOOLEAN, drawsBudget \in BOOLEAN :
           ( /\ TraverseVisit(item, visible, coarse, metaBudget, drawsBudget)
             /\ ~item.loadOnly /\ visible /\ ~coarse
             /\ tree'.nodes[item.node].meta
             /\ FailedChilds(tree.nodes, resources, item.node) # {} )
           => item.node \in tree'.rendered
       /\ \A t \in TravNodes :
              HasGeometry(t) /\ GetResourceValidity(resources', MeshOf(t)) = "Invalid"
                  => t \notin tree'.emitted]_vars

\* the one metatile that travDetermineMeta needs for n has failed for good
MetaTileFailed(n) ==
    /\ MetaTileOf(n) \in DOMAIN resources
    /\ GetResourceValidity(resources, MetaTileOf(n)) = "Invalid"

\* C16: when every metatile that travDetermineMeta needs for a node, the
\* root included, is Invalid and none is Indeterminate, the call completes
\* without an assertion failure or fault and the tile is treated as empty:
\* the node gets no children and nothing is rendered for it.
C16_FailedMetaTileIsEmptyTile ==
    [][\A item \in QueueItems, visible \in BOOLEAN, coarse \in BOOLEAN,
          metaBudget \in BOOLEAN, drawsBudget \in BOOLEAN :
          ( /\ TraverseVisit(item, visible, coarse, metaBudget, drawsBudget)
            /\ ~tree.nodes[item.node].meta /\ metaBudget
            /\ MetaTileFailed(item.node) )
          => /\ alive'
             /\ Childs(tree'.nodes, item.node) = {}
             /\ item.node \notin tree'.rendered]_vars

\* C17: in every state of the traverse tree, also after traverseClearing has
\* pruned nodes: a node without meta has no children and no renders; a node
\* has children only if its metadata was resolved; a node's renders are
\* non-empty only after travDetermineDraws returned determined for it.
C17_TreeInvariants ==
    \A n \in TravNodes :
        /\ ~tree.nodes[n].meta =>
               Childs(tree.nodes, n) = {} /\ ~tree.nodes[n].renders
        /\ Childs(tree.nodes, n) # {} =>
               tree.nodes[n].exists /\ tree.nodes[n].meta
        /\ tree.nodes[n].renders =>
               tree.nodes[n].exists /\ tree.nodes[n].determined

\* a node that had draw tasks and a visited child has been pruned: it is
\* back without meta while its parent still holds draw tasks
C17_Witness ==
    \E n \in TravNodes : \E d \in ChildrenOf(n) :
        /\ tree.nodes[n].exists
        /\ ~tree.nodes[n].meta
        /\ MetaTileOf(d) # MetaTileOf(n)
        /\ MetaTileOf(d) \in DOMAIN resources
        /\ TextureOf(n) \in DOMAIN resources
        /\ tree.nodes[RootNode].renders
        /\ n # RootNode

\* the resources that this step takes to ready
BecomeReady ==
    {n \in DOMAIN resources :
        /\ resources[n].state # "ready"
        /\ n \in DOMAIN resources'
        /\ resources'[n].state = "ready"}

\* C20: a resource's state changes to ready only between render ticks: no
\* completion of loadResource happens while the render thread's traversal
\* of a frame is in progress.
C20_ReadyOnlyBetweenTicks ==
    [][BecomeReady # {} => tree.phase # "traversing"]_vars

(***************************************************************************)
(* The map's prerequisites.                                                *)
(***************************************************************************)
\* the resource that prerequisitesCheck waits for: the authentication, when
\* a path for it is set and it is not ready, else the map config
Awaited ==
    IF /\ session.authPath
       /\ ~(AuthName \in DOMAIN resources
              /\ resources[AuthName].state = "ready")
    THEN AuthName
    ELSE MapConfigName

AwaitedIn(states) ==
    /\ ~session.initialized
    /\ session.mapConfigPath
    /\ Awaited \in DOMAIN resources
    /\ resources[Awaited].state \in states

Occurrences(list, center) ==
    Cardinality({i \in 1..Len(list) : list[i] = center})

\* C19: after every renderUpdate the opaque draw list is ordered by
\* non-decreasing squared distance of the tasks' centers from the eye, and
\* it holds exactly the opaque tasks that the frame's traversal emitted,
\* each as many times as it was emitted.
C19_OpaqueSortedFrontToBack ==
    camera.phase = "done" =>
        /\ \A i, j \in 1..Len(camera.opaque) :
               i < j => SqDist(camera.opaque[i], camera.eye)
                            <= SqDist(camera.opaque[j], camera.eye)
        /\ Len(camera.opaque) = Len(camera.emitted)
        /\ \A center \in Centers :
               Occurrences(camera.opaque, center)
                   = Occurrences(camera.emitted, center)

\* a finished frame whose three tasks, two of them equal, were emitted back
\* to front and stand on both sides of the eye
C19_Witness ==
    /\ camera.phase = "done"
    /\ Len(camera.emitted) = 3
    /\ camera.opaque # camera.emitted
    /\ \E i, j \in 1..3 : i # j /\ camera.emitted[i] = camera.emitted[j]
    /\ \E i, j \in 1..3 :
           camera.emitted[i] < camera.eye /\ camera.eye < camera.emitted[j]

(***************************************************************************)
(* The threads' shared data.                                               *)
(***************************************************************************)
\* the resources that a worker holds: the one dataTick has popped and not
\* finished with, and those handed to the fetcher
WorkerHolds ==
    (IF workerPc # "idle" /\ ~workerStale THEN {workerR} ELSE {})
        \cup fetching

\* a step of the render thread in the cache: getMapResource with its
\* touchResource, or dataRenderTick with the eviction pass
RenderThreadStep ==
    \/ DataRenderTick
    \/ \E n \in Names, avail \in AvailTypes : GetMapResource(n, avail)

\* C21: while a worker holds a resource, from dataTick's pop or the hand-over
\* to the fetcher until dataTick, loadResource or fetchedFile has finished
\* with it, the render thread does not write that resource's state and
\* does not erase it.
C21_RenderThreadSparesHeld ==
    [][RenderThreadStep =>
          \A n \in WorkerHolds \cap DOMAIN resources :
              /\ n \in DOMAIN resources'
              /\ resources'[n].state = resources[n].state]_vars

\* C22: every name that fetchedFile has put into the staging set is in the
\* authoritative blacklist after the next merge; no step loses a name of
\* either set; the authoritative blacklist never shrinks; and the staging
\* set is empty right after each merge.
C22_BlacklistMergeKeepsNames ==
    [][/\ invalidUrl \subseteq invalidUrl'
       /\ invalidUrlNew \subseteq invalidUrlNew' \cup invalidUrl'
       /\ DataTickTake =>
              /\ invalidUrlNew \subseteq invalidUrl'
              /\ invalidUrlNew' = {}]_vars

\* a name has been merged into the blacklist and another failure waits in
\* the staging set
C22_Witness ==
    /\ invalidUrl # {}
    /\ invalidUrlNew # {}
    /\ invalidUrlNew \cap invalidUrl = {}

\* what a touch of n adds to the render thread's build set
EnqueuedByTouch(n) ==
    IF \/ n \notin DOMAIN resources
       \/ resources[n].state \in {"initializing", "downloaded", "finalizing"}
    THEN {n}
    ELSE {}

\* C23: dataRenderTick replaces the worker-visible pending queue by exactly
\* the render thread's build set, which holds the resources touched since
\* the previous swap while initializing, downloaded or finalizing, and
\* leaves the build set empty; dataTick removes at most one item per call
\* and inserts into neither set.
C23_QueueSwapExact ==
    [][/\ DataRenderTick =>
              prepareQue' = prepareQueNew /\ prepareQueNew' = {}
       /\ \A n \in Names :
              GetMapResource(n, AvailTestOf(n)) =>
                  /\ prepareQueNew' = prepareQueNew \cup EnqueuedByTouch(n)
                  /\ prepareQue' = prepareQue
       /\ ~(DataRenderTick
              \/ \E n \in Names : GetMapResource(n, AvailTestOf(n))) =>
              /\ prepareQueNew' = prepareQueNew
              /\ prepareQue' \subseteq prepareQue
              /\ Cardinality(prepareQue \ prepareQue') <= 1]_vars

\* after a swap the workers see a pending resource, the build set is empty
\* and a ready resource that was touched in a later frame is in neither
C23_Witness ==
    /\ evicted.ran
    /\ prepareQue # {}
    /\ prepareQueNew = {}
    /\ \E n \in DOMAIN resources :
           /\ resources[n].state = "ready"
           /\ resources[n].lastAccessTick > 0
           /\ n \notin prepareQue \cup prepareQueNew

(***************************************************************************)
(* Frustum culling.                                                        *)
(***************************************************************************)
\* C24: for every axis-aligned box and every six planes, aabbTest returns
\* false exactly when for one of the planes all 8 corners of the box lie
\* strictly on its negative side; a box with a corner on the non-negative
\* side of every plane is not rejected; the box is left as it was.
C24_RejectsOnlyBoxesOutside ==
    [][/\ culling'.result = "false" => culling'.outside
       /\ culling'.result = "true" =>
              ~culling'.outside /\ culling'.done = PlaneCount
       /\ culling'.result = "running" => ~culling'.outside
       /\ (\E p \in Planes : AabbTestPlane(p)) =>
              culling'.aabb = culling.aabb]_vars

\* a box that is accepted although one of its corners is on the negative
\* side of a plane whose first component is negative
C24_Witness ==
    /\ culling.result = "true"
    /\ culling.aabb[1] # culling.aabb[2]
    /\ \E p \in Planes :
           /\ p[1] < 0
           /\ ~PlaneRejects(culling.aabb, p)
           /\ \E c \in Corners(culling.aabb) : Dot3(p, c) + p[4] < 0

(***************************************************************************)
(* The per-tick budget of metadata resolutions.                            *)
(***************************************************************************)
\* C25: within one render tick at most maxNodeMetaUpdatesPerTick calls of
\* travDetermineMeta get past the budget check; every further call in the
\* tick leaves the node without meta and without children and requests
\* nothing; the counter starts again from 0 at the next tick.
C25_MetaBudgetPerTick ==
    [][/\ tree'.metaRequests <= MaxMetaUpdatesPerTick
       /\ \A item \in QueueItems, visible \in BOOLEAN, coarse \in BOOLEAN,
             metaBudget \in BOOLEAN, drawsBudget \in BOOLEAN :
             ( /\ TraverseVisit(item, visible, coarse, metaBudget, drawsBudget)
               /\ ~tree.nodes[item.node].meta
               /\ tree.metaRequests >= MaxMetaUpdatesPerTick )
             => /\ ~tree'.nodes[item.node].meta
                /\ Childs(tree'.nodes, item.node) = {}
                /\ resources' = resources
                /\ prepareQueNew' = prepareQueNew
                /\ tree'.metaRequests = tree.metaRequests
       /\ RenderTickRender =>
              tree'.metaUpdates = 0 /\ tree'.metaRequests = 0]_vars

\* two nodes have got their metadata in this tick and a third one has been
\* turned away
C25_Witness ==
    /\ tree.phase = "traversing"
    /\ tree.metaRequests = MaxMetaUpdatesPerTick
    /\ tree.metaUpdates > MaxMetaUpdatesPerTick
    /\ \E n \in TravNodes :
           tree.nodes[n].exists /\ tree.nodes[n].visited /\ ~tree.nodes[n].meta

(***************************************************************************)
(* The grace tick of the eviction.                                         *)
(***************************************************************************)
\* the resources that the step takes out of the cache
ErasedByStep == DOMAIN resources \ DOMAIN resources'

\* the resources that the step puts into state finalizing
MarkedByStep ==
    {n \in DOMAIN resources' :
        /\ resources'[n].state = "finalizing"
        /\ n \in DOMAIN resources => resources[n].state # "finalizing"}

\* C26: an eviction pass erases a resource only if it was finalizing when
\* the pass started; no pass both marks and erases a resource, and only a
\* pass makes a resource finalizing, so that every erased resource has been
\* finalizing since an earlier pass, over the render tick between the two;
\* a touch in that tick takes it back to initializing.
C26_ErasedAfterGraceTick ==
    [][/\ ErasedByStep # {} => DataRenderTick
       /\ \A n \in ErasedByStep : resources[n].state = "finalizing"
       /\ \A n \in MarkedByStep : DataRenderTick /\ n \in DOMAIN resources
       /\ DataRenderTick =>
              /\ evicted'.marked = MarkedByStep
              /\ evicted'.erased = ErasedByStep
              /\ evicted'.marked \cap evicted'.erased = {}
       /\ \A n \in DOMAIN resources :
              ( /\ resources[n].state = "finalizing"
                /\ GetMapResource(n, resources[n].availTest) )
              => resources'[n].state = "initializing"]_vars

\* the last pass has erased a resource and the other one is in the cache
C26_Witness ==
    /\ evicted.over
    /\ evicted.marked = {}
    /\ \E n \in evicted.erased : n \notin DOMAIN resources
    /\ DOMAIN resources # {}

(***************************************************************************)
(* One rendered node on every path from the root.                          *)
(***************************************************************************)
\* C27: in any frame, in hierarchical and in flat mode, renderNode is
\* invoked at most once per node and never for both a node and one of its
\* descendants.
C27_RenderedNodesDisjoint ==
    /\ tree.again = {}
    /\ \A n \in tree.rendered : Descendants(n) \cap tree.rendered = {}

\* flat mode has rendered two nodes of different subtrees, one below a node
\* that was not coarse enough
C27_Witness ==
    /\ options.traverseMode = "flat"
    /\ {"k2", "g"} \subseteq tree.rendered
    /\ tree.nodes["k1"].visited
    /\ tree.queue = {}

(***************************************************************************)
(* Metadata in flight.                                                     *)
(***************************************************************************)
\* the states that getResourceValidity takes for Indeterminate
IndeterminateStates ==
    {"initializing", "downloading", "downloaded", "finalizing"}

\* the metatile of layer i is Indeterminate when travDetermineMeta asks
MetaTileInFlight(i) ==
    \/ UrlMeta(i) \notin DOMAIN resources
    \/ resources[UrlMeta(i)].state \in IndeterminateStates

\* C28: if the metatile of at least one layer is Indeterminate
\* (initializing, downloading, downloaded or finalizing), travDetermineMeta
\* returns false and leaves the node with no meta and no children; every
\* metatile has been requested, and the node, its meta still null, is
\* attempted again at its next visit.
C28_IndeterminateMetaDefers ==
    [][(TravDetermineMeta /\ \E i \in Layers : MetaTileInFlight(i)) =>
          /\ travMeta' = NoMeta
          /\ alive'
          /\ \A i \in Layers :
                 /\ UrlMeta(i) \in DOMAIN resources'
                 /\ resources'[UrlMeta(i)].lastAccessTick = frameIndex]_vars

IsInFlightBesideReady(i, j) ==
    /\ {UrlMeta(i), UrlMeta(j)} \subseteq DOMAIN resources
    /\ resources[UrlMeta(i)].state = "ready"
    /\ resources[UrlMeta(j)].state = "downloading"
    /\ resources[UrlMeta(i)].lastAccessTick = frameIndex
    /\ resources[UrlMeta(j)].lastAccessTick = frameIndex

\* the node has been visited while one metatile was ready and the other one
\* was downloading, and it has no meta
C28_Witness ==
    /\ frameIndex > 0
    /\ travMeta = NoMeta
    /\ \E i, j \in Layers : IsInFlightBesideReady(i, j)

(***************************************************************************)
(* The children of a resolved node.                                        *)
(***************************************************************************)
\* C29: after a successful travDetermineMeta the node has a child for
\* quadrant q if and only if the metanode of at least one layer whose
\* metatile is valid has child flag q set; there are at most 4 children,
\* each for a quadrant of its own.
C29_ChildPerFlaggedQuadrant ==
    [][(TravDetermineMeta /\ travMeta'.resolved) =>
          LET kids == travMeta'.childs
              valid == {i \in Layers :
                           /\ UrlMeta(i) \in DOMAIN resources'
                           /\ resources'[UrlMeta(i)].state = "ready"}
          IN  /\ \A q \in Quadrants :
                     (\E k \in DOMAIN kids : kids[k] = q)
                         <=> (\E i \in valid : q \in ChildFlagsOf(i))
              /\ Len(kids) <= Cardinality(Quadrants)
              /\ \A k, l \in DOMAIN kids : k # l => kids[k] # kids[l]
              /\ \A k \in DOMAIN kids : kids[k] \in Quadrants]_vars

\* both layers are valid: the quadrant that both flag has one child, the
\* quadrant that none flags has no child
C29_Witness ==
    /\ travMeta.resolved
    /\ travMeta.metaTiles = Layers
    /\ travMeta.childs = <<0, 1, 3>>

(***************************************************************************)
(* The clearing walk.                                                      *)
(***************************************************************************)
\* C30: the clearing walk leaves alone every node that was accessed within
\* the last 5 ticks (lastAccessTime + 5 >= tickIndex), the nodes of a
\* cleared subtree included: a node is never accessed later than its parent.
C30_ClearingSparesRecentNodes ==
    [][/\ \A n \in TravNodes : \A d \in Childs(tree.nodes, n) :
              tree.nodes[d].lastAccessTime <= tree.nodes[n].lastAccessTime
       /\ \A n \in TravNodes, k \in TickSteps :
              ( /\ RenderTickPrepareTicks(k)
                /\ tree.nodes[n].exists
                /\ tree.nodes[n].lastAccessTime + ClearAge >= tree'.tickIndex )
              => tree'.nodes[n] = tree.nodes[n]]_vars

\* the first child has been cleared, with the grandchild below it, in a
\* tick in which the root was kept with its meta and its draw tasks
C30_Witness ==
    /\ tree.phase = "idle"
    /\ tree.tickIndex > ClearAge
    /\ tree.nodes[RootNode].meta
    /\ tree.nodes[RootNode].lastAccessTime > 0
    /\ tree.nodes["k1"].exists
    /\ ~tree.nodes["k1"].meta
    /\ ~tree.nodes["g"].exists
    /\ MetaTileOf("g") \in DOMAIN resources

(***************************************************************************)
(* The delay of the clearing walk.                                         *)
(***************************************************************************)
\* the node of lod l is cleared: it is gone, or it has no meta and no child
ChainNodeCleared(l) ==
    \/ ~tree.nodes[l].exists
    \/ /\ ~tree.nodes[l].meta
       /\ (l + 1) \in ChainLods => ~tree.nodes[l + 1].exists

\* C31: after the clearing walk of a tick, a node of lod below 3 that has
\* not been accessed from tick t on is cleared if the tick is t + 6 or
\* later, and a node of lod 3 or deeper is cleared if the tick is
\* t + 6 + 63 or later.
C31_ClearedWithinBound ==
    tree.phase = "prepared" =>
        \A l \in ChainLods :
            LET t == tree.nodes[l].lastAccessTime + 1
            IN  /\ (l < StaggeredLod /\ tree.tickIndex >= t + ClearAge + 1)
                       => ChainNodeCleared(l)
                /\ (l >= StaggeredLod
                      /\ tree.tickIndex >= t + ClearAge + SlotPeriod)
                       => ChainNodeCleared(l)

\* the node of lod 4 has not been accessed for more than 60 ticks and still
\* has its meta, as the slot of its parent has not come, while the nodes
\* above are visited in every tick
C31_Witness ==
    /\ tree.phase = "prepared"
    /\ tree.tickIndex = SlotPeriod + ChainSlot - 1
    /\ tree.nodes[StaggeredLod + 1].meta
    /\ tree.nodes[StaggeredLod + 1].lastAccessTime = ChainSlot + 1
    /\ tree.nodes[StaggeredLod].meta
    /\ tree.nodes[0].lastAccessTime + 1 = tree.tickIndex

(***************************************************************************)
(* The traverse root and the map configuration.                            *)
(***************************************************************************)
\* the tree that a successful prerequisitesCheck leaves: the root alone
FreshTree == [NoTree EXCEPT !.nodes[RootNode] = NewNode(TRUE), !.phase = "idle"]

\* C32: after any calls of setMapConfigPath, purgeViewCache and
\* prerequisitesCheck, initialized implies that the traverse root exists;
\* the root is created exactly when initialized goes from false to true;
\* setMapConfigPath and purgeViewCache destroy the root and reset
\* initialized, and no node of the tree before them is left.
C32_RootFollowsInitialized ==
    [][/\ session'.initialized => tree'.nodes[RootNode].exists
       /\ ~session'.initialized => tree' = NoTree
       /\ (~session.initialized /\ session'.initialized) =>
              PrerequisitesCheck /\ tree' = FreshTree
       /\ (PrerequisitesCheck /\ session.initialized) => tree' = tree
       /\ (~tree.nodes[RootNode].exists /\ tree'.nodes[RootNode].exists) =>
              ~session.initialized /\ session'.initialized
       /\ ((\E path \in BOOLEAN : SetMapConfigPath(path, FALSE))
             \/ PurgeViewCache) =>
              /\ ~session'.initialized
              /\ \A n \in TravNodes : ~tree'.nodes[n].exists
              /\ tree'.queue = {}]_vars

\* the map is initialized for the second time: the root is alone although
\* the tree before the change had been built down to the grandchild
C32_Witness ==
    /\ session.changes = 2
    /\ session.initialized
    /\ tree = FreshTree
    /\ MetaTileOf("g") \in DOMAIN resources

(***************************************************************************)
(* Progress of a pending resource.                                         *)
(***************************************************************************)
\* C33: with a fair render tick that touches the resources, a fair worker
\* and a fetcher that completes every fetch, a resource that is
\* initializing reaches ready, errorDownload or errorLoad.
C33_InitializingGetsFinished ==
    \A n \in LiveNames :
        (n \in DOMAIN resources /\ resources[n].state = "initializing")
            ~> (/\ n \in DOMAIN resources
                /\ resources[n].state \in {"ready", "errorDownload", "errorLoad"})

(***************************************************************************)
(* loadResource: the decoder's error and the content buffer.               *)
(***************************************************************************)
\* this step of the worker calls loadResource on n
LoadCalled(n) ==
    /\ alive
    /\ workerR = n
    /\ n \in DOMAIN resources
    /\ workerPc' = "idle"
    /\ \/ /\ workerPc = "check"
          /\ ~workerStale
          /\ resources[n].state = "downloaded"
       \/ /\ workerPc = "dispatch"
          /\ ~IsUrl(n) \/ (~IsJson(n) /\ AvailableInCache(n))

\* the size of the content buffer at that call
BufferAtLoad(n) ==
    IF workerPc = "check" THEN resources[n].contentData
    ELSE IF IsUrl(n) THEN LoadFromCache(resources, diskCache, n)[n].contentData
    ELSE LoadFromInternalMemory(resources, n)[n].contentData

\* C34: loadResource leaves the resource in ready or, where the decoder
\* raised its error, in errorLoad with its costs untouched; the error does
\* not end the data thread; and in both cases the content buffer is freed.
C34_LoadErrorCaughtBufferFreed ==
    [][\A n \in FetchNames :
          LoadCalled(n) =>
              /\ resources'[n].state \in {"ready", "errorLoad"}
              /\ resources'[n].state = "errorLoad" =>
                     /\ resources'[n].ramMemoryCost = resources[n].ramMemoryCost
                     /\ resources'[n].gpuMemoryCost = resources[n].gpuMemoryCost
              /\ resources'[n].contentData = 0
              /\ BufferAtLoad(n) > 0 => alive']_vars

\* a downloaded file with content whose load failed: errorLoad, not
\* blacklisted, buffer freed, the data thread alive
C34_Witness ==
    /\ alive
    /\ Exists("u://f")
    /\ resources["u://f"].state = "errorLoad"
    /\ "u://f" \notin invalidUrl \cup invalidUrlNew
    /\ resources["u://f"].contentData = 0
    /\ "u://f" \in DOMAIN diskCache
    /\ diskCache["u://f"] > 0

\* C36: whenever loadResource is called, the content buffer is not empty.
C36_LoadedBufferNonEmpty ==
    [][\A n \in FetchNames : LoadCalled(n) => BufferAtLoad(n) > 0]_vars

\* C35: whenever fetchedFile runs for a resource, the resource is in state
\* downloading, also where setMapConfigPath has run during the fetch.
C35_FetchedWhileDownloading ==
    [][\A n \in SessionNames :
          (n \in fetching /\ n \notin fetching') =>
              FetchAssertHolds(resources, n)]_vars

\* C37: the download counter equals the number of resources that are with
\* the fetcher, and it is never negative.
C37_DownloadsCountsFetching ==
    /\ downloads = Cardinality(fetching)
    /\ downloads >= 0

\* C38: a resource that is erased from the resource map is not the one the
\* worker has popped and not yet finished with, is not with the fetcher,
\* and is not in the pending queue after the pass.
C38_ErasedIsNotHeld ==
    [][\A n \in EvictNames :
          (n \in DOMAIN resources /\ n \notin DOMAIN resources') =>
              /\ ~(workerPc \in {"check", "dispatch"} /\ workerR = n)
              /\ n \notin fetching
              /\ n \notin prepareQue']_vars

(***************************************************************************)
(* The traversal loop of a frame.                                          *)
(***************************************************************************)
\* C39: the traversal loop of every frame ends with an empty traverse
\* queue, and within a frame no node is handed to traverse twice: the queue
\* holds a node at most once and never a node that was visited already.
C39_TraversalEndsOncePerNode ==
    /\ [](tree.phase = "traversing" =>
            \A i \in tree.queue :
                /\ ~tree.nodes[i.node].visited
                /\ \A j \in tree.queue : i.node = j.node => i = j)
    /\ (tree.phase = "traversing") ~> (tree.phase = "idle" /\ tree.queue = {})

(***************************************************************************)
(* The memory total of the eviction pass.                                  *)
(***************************************************************************)
\* C40: the memory total that the eviction pass computes is the true sum of
\* the RAM and GPU costs of the cached resources, the pass is entered
\* exactly when that sum is above maxResourcesMemory, and what the running
\* subtraction leaves is the sum less the costs of the handled candidates.
C40_MemUseIsTrueTotal ==
    [][DataRenderTick =>
          /\ MemUse(resources) = TotalCost(resources, DOMAIN resources)
          /\ evicted'.over = StartsOverBudget
          /\ evicted'.memLeft =
                 TotalCost(resources, DOMAIN resources)
                     - TotalCost(resources,
                                 evicted'.marked \cup evicted'.erased)]_vars

====
